---- MODULE Spec2Model ----
(***************************************************************************)
(* A model of src/app.js (class AIChatConverter): the conversion of chat   *)
(* export files (JSON) into a list of conversations.                      *)
(*                                                                         *)
(* JavaScript values are tagged records, so that the dynamic type tests    *)
(* of the code (truthiness, typeof, Array.isArray, instanceof Date) can be *)
(* translated as they are written.  A string is a sequence of characters,  *)
(* an array a sequence of values, an object a sequence of key/value pairs  *)
(* in insertion order (the order Object.keys reports).  A number is an     *)
(* integer of three limbs in base 10^6 with a sign (TLC's integers are 32  *)
(* bits wide, epoch milliseconds are not).                                 *)
(***************************************************************************)
EXTENDS Integers, Sequences, FiniteSets, TLC

(* ------------------------------------------------------------------ *)
(* JavaScript values                                                    *)
(* ------------------------------------------------------------------ *)

Undefined == [t |-> "undefined"]
Null == [t |-> "null"]
Bool(b) == [t |-> "bool", b |-> b]
Str(s) == [t |-> "str", s |-> s]
Arr(a) == [t |-> "arr", a |-> a]
Obj(o) == [t |-> "obj", o |-> o]
P(k, v) == [k |-> k, v |-> v]

Limb == 1000 * 1000

\* the number (neg ? -1 : 1) * (a * 10^12 + b * 10^6 + c), 0 <= b, c < 10^6
Num(neg, a, b, c) == [t |-> "num", neg |-> neg, a |-> a, b |-> b, c |-> c]
Small(n) == Num(FALSE, 0, 0, n)

\* a Date object: its time value in milliseconds, or an invalid date (NaN)
DateOf(n) == [t |-> "date", valid |-> TRUE, neg |-> n.neg, a |-> n.a, b |-> n.b, c |-> n.c]
InvalidDate == [t |-> "date", valid |-> FALSE, neg |-> FALSE, a |-> 0, b |-> 0, c |-> 0]

IsZero(n) == n.a = 0 /\ n.b = 0 /\ n.c = 0

\* magnitude comparison |x| > |y|
MagGT(x, y) ==
    \/ x.a > y.a
    \/ x.a = y.a /\ x.b > y.b
    \/ x.a = y.a /\ x.b = y.b /\ x.c > y.c

\* x > y for numbers
NumGT(x, y) ==
    IF x.neg /\ ~IsZero(x)
    THEN y.neg /\ ~IsZero(y) /\ MagGT(y, x)
    ELSE IF y.neg /\ ~IsZero(y) THEN TRUE ELSE MagGT(x, y)

\* value * 1000
Mul1000(n) ==
    LET pc == n.c * 1000
        pb == n.b * 1000 + (pc \div Limb)
    IN  Num(n.neg, n.a * 1000 + (pb \div Limb), pb % Limb, pc % Limb)

\* JavaScript truthiness: undefined, null, false, 0 and "" are falsy
Truthy(v) ==
    CASE v.t = "undefined" -> FALSE
      [] v.t = "null" -> FALSE
      [] v.t = "bool" -> v.b
      [] v.t = "num" -> ~IsZero(v)
      [] v.t = "str" -> Len(v.s) > 0
      [] OTHER -> TRUE

\* a || b
Or(a, b) == IF Truthy(a) THEN a ELSE b

\* const x = v, and the statements that follow it: the body on the value of v
With(v, Body(_)) == Body(v)

Nullish(v) == v.t \in {"undefined", "null"}

HasKey(o, k) == \E i \in 1..Len(o) : o[i].k = k

\* v[k] for a v that is neither null nor undefined (reading those throws)
Get(v, k) ==
    IF v.t = "obj" /\ HasKey(v.o, k)
    THEN v.o[CHOOSE i \in 1..Len(v.o) : v.o[i].k = k].v
    ELSE Undefined

(* ------------------------------------------------------------------ *)
(* Strings: sequences of characters                                     *)
(* ------------------------------------------------------------------ *)

UpperChars == <<"A", "B", "C", "D", "E", "F", "G", "H", "I", "J", "K", "L", "M",
                "N", "O", "P", "Q", "R", "S", "T", "U", "V", "W", "X", "Y", "Z">>
LowerChars == <<"a", "b", "c", "d", "e", "f", "g", "h", "i", "j", "k", "l", "m",
                "n", "o", "p", "q", "r", "s", "t", "u", "v", "w", "x", "y", "z">>
DigitChars == <<"0", "1", "2", "3", "4", "5", "6", "7", "8", "9">>

\* the characters String.prototype.trim removes
WhiteSpace == {" ", "\n", "\t", "\r"}

LowerChar(c) ==
    IF \E i \in 1..26 : UpperChars[i] = c
    THEN LowerChars[CHOOSE i \in 1..26 : UpperChars[i] = c]
    ELSE c

\* s.toLowerCase()
ToLowerCase(s) == [i \in 1..Len(s) |-> LowerChar(s[i])]

\* s.includes(p)
Includes(s, p) == \E i \in 0..(Len(s) - Len(p)) : SubSeq(s, i + 1, i + Len(p)) = p

\* s.startsWith(p), s.endsWith(p)
StartsWith(s, p) == Len(p) <= Len(s) /\ SubSeq(s, 1, Len(p)) = p
EndsWith(s, p) == Len(p) <= Len(s) /\ SubSeq(s, Len(s) - Len(p) + 1, Len(s)) = p

\* s.trim()
Trim(s) ==
    LET keep == {i \in 1..Len(s) : s[i] \notin WhiteSpace}
    IN  IF keep = {} THEN <<>>
        ELSE SubSeq(s, CHOOSE i \in keep : \A j \in keep : i <= j,
                       CHOOSE i \in keep : \A j \in keep : i >= j)

\* strs.join("\n")
RECURSIVE JoinNL(_)
JoinNL(strs) ==
    IF Len(strs) = 0 THEN <<>>
    ELSE IF Len(strs) = 1 THEN strs[1]
    ELSE strs[1] \o <<"\n">> \o JoinNL(Tail(strs))

\* the decimal digits of a natural number, as in `${n}`
RECURSIVE NatToString(_)
NatToString(n) ==
    IF n < 10 THEN <<DigitChars[n + 1]>>
    ELSE NatToString(n \div 10) \o <<DigitChars[(n % 10) + 1]>>

(* ------------------------------------------------------------------ *)
(* Timestamps (parseTimestamp)                                          *)
(* ------------------------------------------------------------------ *)

\* 9999999999, the literal of the comparison in parseTimestamp
TsThreshold == Num(FALSE, 0, 9999, 999999)

\* the largest time value a Date holds, 8.64e15 ms; new Date(n) beyond it is invalid
MaxDateMs == Num(FALSE, 8640, 0, 0)

\* new Date(n) for a number n
NewDateNum(n) == IF MagGT(n, MaxDateMs) THEN InvalidDate ELSE DateOf(n)

Iso20240101 == <<"2", "0", "2", "4", "-", "0", "1", "-", "0", "1", "T",
                 "0", "0", ":", "0", "0", ":", "0", "0", "Z">>
Iso20240115 == <<"2", "0", "2", "4", "-", "0", "1", "-", "1", "5", "T",
                 "1", "0", ":", "0", "0", ":", "0", "0", "Z">>
NotADate == <<"s", "o", "o", "n">>

\* The date strings the model's inputs use, with the time value Date gives them.
DateStrings ==
    << [s |-> Iso20240101, ms |-> Num(FALSE, 1, 704067, 200000)],
       [s |-> Iso20240115, ms |-> Num(FALSE, 1, 705312, 800000)] >>

\* new Date(s) for a string s: the parsed time, or an invalid date
NewDateStr(s) ==
    IF \E i \in 1..Len(DateStrings) : DateStrings[i].s = s
    THEN DateOf(DateStrings[CHOOSE i \in 1..Len(DateStrings) : DateStrings[i].s = s].ms)
    ELSE InvalidDate

\* new Date(v) for a JSON value v
NewDate(v) ==
    CASE v.t = "num" -> NewDateNum(v)
      [] v.t = "str" -> NewDateStr(v.s)
      [] v.t = "null" -> DateOf(Small(0))
      [] v.t = "bool" -> DateOf(Small(IF v.b THEN 1 ELSE 0))
      [] v.t = "date" -> v
      [] OTHER -> InvalidDate

\* the scale rule: value > 9999999999 ? value : value * 1000
TsScaleGE(value) == IF ~MagGT(TsThreshold, value) /\ ~value.neg THEN value ELSE Mul1000(value)
TsScale(value) == IF NumGT(value, TsThreshold) THEN value ELSE Mul1000(value)

TsFalsyGuard(value) == ~Truthy(value)

parseTimestamp(value) ==
    IF TsFalsyGuard(value) THEN Null
    ELSE IF value.t = "date" THEN value
    ELSE IF value.t = "num" THEN NewDateNum(TsScale(value))
    ELSE IF value.t = "str"
         THEN (LET date == NewDateStr(value.s) IN IF date.valid THEN date ELSE Null)
    ELSE Null

(* ------------------------------------------------------------------ *)
(* String literals of the source: property names, roles, patterns      *)
(* ------------------------------------------------------------------ *)

\* Characters outside ASCII are written as their code points, one token each:
\* kaiwa is the placeholder title of a conversation (two kanji, "conversation"),
\* sent_message_prefix the prefix of a Gemini activity title ("sent message:",
\* nine kana/kanji and a colon), myactivity_ja_json the katakana file name
\* pattern ("my activity" + .json).
lit ==
    [ header |-> <<"h", "e", "a", "d", "e", "r">>,
      mapping |-> <<"m", "a", "p", "p", "i", "n", "g">>,
      conversations |-> <<"c", "o", "n", "v", "e", "r", "s", "a", "t", "i", "o", "n", "s">>,
      chats |-> <<"c", "h", "a", "t", "s">>,
      history |-> <<"h", "i", "s", "t", "o", "r", "y">>,
      messages |-> <<"m", "e", "s", "s", "a", "g", "e", "s">>,
      content |-> <<"c", "o", "n", "t", "e", "n", "t">>,
      contents |-> <<"c", "o", "n", "t", "e", "n", "t", "s">>,
      id |-> <<"i", "d">>,
      conversation_id |->
          <<"c", "o", "n", "v", "e", "r", "s", "a", "t", "i", "o", "n", "_", "i", "d">>,
      chat_id |-> <<"c", "h", "a", "t", "_", "i", "d">>,
      uuid |-> <<"u", "u", "i", "d">>,
      current_node |-> <<"c", "u", "r", "r", "e", "n", "t", "_", "n", "o", "d", "e">>,
      title |-> <<"t", "i", "t", "l", "e">>,
      name |-> <<"n", "a", "m", "e">>,
      create_time |-> <<"c", "r", "e", "a", "t", "e", "_", "t", "i", "m", "e">>,
      created_at |-> <<"c", "r", "e", "a", "t", "e", "d", "_", "a", "t">>,
      created |-> <<"c", "r", "e", "a", "t", "e", "d">>,
      timestamp |-> <<"t", "i", "m", "e", "s", "t", "a", "m", "p">>,
      update_time |-> <<"u", "p", "d", "a", "t", "e", "_", "t", "i", "m", "e">>,
      updated_at |-> <<"u", "p", "d", "a", "t", "e", "d", "_", "a", "t">>,
      updated |-> <<"u", "p", "d", "a", "t", "e", "d">>,
      modified |-> <<"m", "o", "d", "i", "f", "i", "e", "d">>,
      createTime |-> <<"c", "r", "e", "a", "t", "e", "T", "i", "m", "e">>,
      updateTime |-> <<"u", "p", "d", "a", "t", "e", "T", "i", "m", "e">>,
      turns |-> <<"t", "u", "r", "n", "s">>,
      safeHtmlItem |-> <<"s", "a", "f", "e", "H", "t", "m", "l", "I", "t", "e", "m">>,
      html |-> <<"h", "t", "m", "l">>,
      time |-> <<"t", "i", "m", "e">>,
      role |-> <<"r", "o", "l", "e">>,
      parts |-> <<"p", "a", "r", "t", "s">>,
      text |-> <<"t", "e", "x", "t">>,
      author |-> <<"a", "u", "t", "h", "o", "r">>,
      sender |-> <<"s", "e", "n", "d", "e", "r">>,
      from |-> <<"f", "r", "o", "m">>,
      message |-> <<"m", "e", "s", "s", "a", "g", "e">>,
      date |-> <<"d", "a", "t", "e">>,
      parent |-> <<"p", "a", "r", "e", "n", "t">>,
      content_type |-> <<"c", "o", "n", "t", "e", "n", "t", "_", "t", "y", "p", "e">>,
      Gemini |-> <<"G", "e", "m", "i", "n", "i">>,
      user |-> <<"u", "s", "e", "r">>,
      assistant |-> <<"a", "s", "s", "i", "s", "t", "a", "n", "t">>,
      model |-> <<"m", "o", "d", "e", "l">>,
      gemini |-> <<"g", "e", "m", "i", "n", "i">>,
      ai |-> <<"a", "i">>,
      bot |-> <<"b", "o", "t">>,
      human |-> <<"h", "u", "m", "a", "n">>,
      system |-> <<"s", "y", "s", "t", "e", "m">>,
      tool |-> <<"t", "o", "o", "l">>,
      conversation |-> <<"c", "o", "n", "v", "e", "r", "s", "a", "t", "i", "o", "n">>,
      chat |-> <<"c", "h", "a", "t">>,
      chatgpt |-> <<"c", "h", "a", "t", "g", "p", "t">>,
      dot_json |-> <<".", "j", "s", "o", "n">>,
      myactivity_json |->
          <<"m", "y", "a", "c", "t", "i", "v", "i", "t", "y", ".", "j", "s", "o", "n">>,
      my_activity_json |->
          <<"m", "y", "_", "a", "c", "t", "i", "v", "i", "t", "y", ".", "j", "s", "o", "n">>,
      conversations_json |->
          <<"c", "o", "n", "v", "e", "r", "s", "a", "t", "i", "o", "n", "s", ".", "j", "s", "o", "n">>,
      client_created_root |->
          <<"c", "l", "i", "e", "n", "t", "-", "c", "r", "e", "a", "t", "e", "d", "-", "r", "o", "o", "t">>,
      client_prefix |-> <<"c", "l", "i", "e", "n", "t", "-">>,
      conversation_prefix |-> <<"c", "o", "n", "v", "e", "r", "s", "a", "t", "i", "o", "n", "_">>,
      chat_prefix |-> <<"c", "h", "a", "t", "_">>,
      gemini_activity_prefix |->
          <<"g", "e", "m", "i", "n", "i", "_", "a", "c", "t", "i", "v", "i", "t", "y", "_">>,
      api_conversation_1 |->
          <<"a", "p", "i", "_", "c", "o", "n", "v", "e", "r", "s", "a", "t", "i", "o", "n", "_", "1">>,
      conversation_1 |-> <<"c", "o", "n", "v", "e", "r", "s", "a", "t", "i", "o", "n", "_", "1">>,
      ellipsis |-> <<".", ".", ".">>,
      dot_md |-> <<".", "m", "d">>,
      ai_chat |-> <<"a", "i", "_", "c", "h", "a", "t">>,
      conversation_infix |-> <<"_", "c", "o", "n", "v", "e", "r", "s", "a", "t", "i", "o", "n", "_">>,
      kaiwa |-> <<"U+4F1A", "U+8A71">>,
      sent_message_prefix |->
          <<"U+9001", "U+4FE1", "U+3057", "U+305F", "U+30E1", "U+30C3", "U+30BB", "U+30FC", "U+30B8", ":">>,
      myactivity_ja_json |->
          <<"U+30DE", "U+30A4", "U+30A2", "U+30AF", "U+30C6", "U+30A3", "U+30D3", "U+30C6", "U+30A3", ".", "j", "s", "o", "n">> ]

(* ------------------------------------------------------------------ *)
(* parseMapping, leaf-chain mode                                        *)
(* ------------------------------------------------------------------ *)

Reverse(q) == [i \in 1..Len(q) |-> q[Len(q) + 1 - i]]

\* the property key a value is converted to in mapping[value]
PropertyKey(v) ==
    CASE v.t = "str" -> v.s
      [] v.t = "num" /\ ~v.neg /\ v.a = 0 /\ v.b = 0 -> NatToString(v.c)
      [] v.t = "null" -> <<"n", "u", "l", "l">>
      [] v.t = "undefined" -> <<"u", "n", "d", "e", "f", "i", "n", "e", "d">>
      [] v.t = "bool" -> IF v.b THEN <<"t", "r", "u", "e">> ELSE <<"f", "a", "l", "s", "e">>
      [] OTHER -> <<"[object]">>

\* mapping[key]
Index(mapping, key) == Get(mapping, PropertyKey(key))

\* a message of a conversation: { role, content, timestamp }
Message(role, content, timestamp) ==
    [t |-> "message", role |-> role, content |-> content, timestamp |-> timestamp]

\* parts.filter(p => typeof p === 'string'), as the strings themselves
StringParts(parts) ==
    LET strs == SelectSeq(parts, LAMBDA p : p.t = "str")
    IN  [i \in 1..Len(strs) |-> strs[i].s]

\* msg.author?.role
AuthorRole(msg) ==
    LET author == Get(msg, lit.author)
    IN  IF Nullish(author) THEN Undefined ELSE Get(author, lit.role)

\* the condition of the while loop
ChainGuardNoSeen(mapping, current, seen) ==
    Truthy(current) /\ Truthy(Index(mapping, current))
ChainGuard(mapping, current, seen) ==
    /\ Truthy(current)
    /\ Truthy(Index(mapping, current))
    /\ PropertyKey(current) \notin seen

\* (author === 'user' || author === 'assistant') && text
ChainKeeps(author, text) ==
    /\ author.t = "str"
    /\ author.s \in {lit.user, lit.assistant}
    /\ Len(text) > 0

\* One iteration of the while loop on the walk state st = [current, seen, chain,
\* thrown]: thrown is set when parts.filter is not a function.
ChainStep(mapping, st) ==
    LET node == Index(mapping, st.current)
        msg == Get(node, lit.message)
        content == IF Truthy(msg) THEN Or(Get(msg, lit.content), Obj(<<>>)) ELSE Obj(<<>>)
        parts == Or(Get(content, lit.parts), Arr(<<>>))
        seen == st.seen \cup {PropertyKey(st.current)}
    IN  IF Truthy(msg) /\ parts.t # "arr"
        THEN [current |-> st.current, seen |-> seen, chain |-> st.chain, thrown |-> TRUE]
        ELSE LET author == IF Truthy(msg) THEN AuthorRole(msg) ELSE Undefined
                 text == IF Truthy(msg) THEN Trim(JoinNL(StringParts(parts.a))) ELSE <<>>
                 keep == Truthy(msg) /\ ChainKeeps(author, text)
                 entry == Message(Str(IF author.s = lit.assistant THEN lit.assistant ELSE lit.user),
                                  Str(text),
                                  parseTimestamp(Get(msg, lit.create_time)))
             IN  [current |-> Get(node, lit.parent),
                  seen |-> seen,
                  chain |-> IF keep THEN Append(st.chain, entry) ELSE st.chain,
                  thrown |-> FALSE]

\* chain.reverse(); return chain
ChainResultUnreversed(chain) == chain
ChainResult(chain) == Reverse(chain)

\* The whole walk: the loop run to its end from the walk state st.
RECURSIVE ChainWalk(_, _)
ChainWalk(mapping, st) ==
    IF st.thrown \/ ~ChainGuard(mapping, st.current, st.seen) THEN st
    ELSE ChainWalk(mapping, ChainStep(mapping, st))

\* currentNode && mapping[currentNode]
LeafMode(mapping, currentNode) == Truthy(currentNode) /\ Truthy(Index(mapping, currentNode))

(* ------------------------------------------------------------------ *)
(* parseMapping, fallback sort mode                                     *)
(* ------------------------------------------------------------------ *)

\* Object.keys(v): the keys of an object, none for a number or a boolean
ObjectKeys(v) == IF v.t = "obj" THEN [i \in 1..Len(v.o) |-> v.o[i].k] ELSE <<>>

\* ({ id, ...mapping[id] }).message
NodeMessage(mapping, id) ==
    LET node == Get(mapping, id)
    IN  IF Nullish(node) THEN Undefined ELSE Get(node, lit.message)

\* message.create_time || 0, the sort key (numbers; another type makes the
\* comparator return NaN, which sort treats as "equal")
SortTime(msg) ==
    LET time == Get(msg, lit.create_time)
    IN  IF time.t = "num" /\ Truthy(time) THEN time ELSE Small(0)

\* Array.prototype.sort is stable: msg goes after the entries that are not later
RECURSIVE InsertByTime(_, _)
InsertByTime(sorted, msg) ==
    IF Len(sorted) = 0 THEN <<msg>>
    ELSE IF NumGT(SortTime(sorted[Len(sorted)]), SortTime(msg))
         THEN Append(InsertByTime(SubSeq(sorted, 1, Len(sorted) - 1), msg), sorted[Len(sorted)])
         ELSE Append(sorted, msg)

RECURSIVE SortByTime(_)
SortByTime(msgs) ==
    IF Len(msgs) = 0 THEN <<>>
    ELSE InsertByTime(SortByTime(SubSeq(msgs, 1, Len(msgs) - 1)), msgs[Len(msgs)])

\* nodeIds.map(...).filter(node => node.message && node.message.content).sort(...),
\* as the messages of the nodes
SortedNodes(mapping) ==
    LET ids == ObjectKeys(mapping)
        msgs == [i \in 1..Len(ids) |-> NodeMessage(mapping, ids[i])]
    IN  SortByTime(SelectSeq(msgs, LAMBDA m : Truthy(m) /\ Truthy(Get(m, lit.content))))

FallbackRoleAsIs(role) == role

\* role === 'assistant' || role === 'model' ? 'assistant' : role
FallbackRole(role) ==
    IF role.t = "str" /\ role.s \in {lit.assistant, lit.model} THEN Str(lit.assistant) ELSE role

\* whether the body of sortedNodes.forEach throws on msg: parts.filter or
\* content.trim is not a function
FallbackThrows(msg) ==
    /\ Truthy(Get(msg, lit.author))
    /\ LET parts == Get(Get(msg, lit.content), lit.parts)
       IN  Truthy(parts) /\ parts.t # "arr"

\* the text the body resolves: the string parts joined, or a string content
FallbackContent(msg) ==
    LET content == Get(msg, lit.content)
        parts == Get(content, lit.parts)
    IN  IF Truthy(parts) THEN JoinNL(StringParts(parts.a))
        ELSE IF content.t = "str" THEN content.s
        ELSE <<>>

\* content.trim() && role !== 'system', for a message with an author
FallbackKeeps(msg) ==
    LET role == Or(Get(Get(msg, lit.author), lit.role), Str(lit.user))
    IN  /\ Len(Trim(FallbackContent(msg))) > 0
        /\ ~(role.t = "str" /\ role.s = lit.system)

FallbackEntry(msg) ==
    Message(FallbackRole(Or(Get(Get(msg, lit.author), lit.role), Str(lit.user))),
            Str(Trim(FallbackContent(msg))),
            parseTimestamp(Get(msg, lit.create_time)))

\* sortedNodes.forEach(...): [thrown, messages]
RECURSIVE FallbackEach(_, _)
FallbackEach(nodes, messages) ==
    IF Len(nodes) = 0 THEN [thrown |-> FALSE, messages |-> messages]
    ELSE LET msg == Head(nodes)
         IN  IF ~Truthy(Get(msg, lit.author)) THEN FallbackEach(Tail(nodes), messages)
             ELSE IF FallbackThrows(msg) THEN [thrown |-> TRUE, messages |-> messages]
             ELSE FallbackEach(Tail(nodes),
                               IF FallbackKeeps(msg)
                               THEN Append(messages, FallbackEntry(msg))
                               ELSE messages)

\* parseMapping(mapping, currentNode): [thrown, messages]
parseMapping(mapping, currentNode) ==
    IF LeafMode(mapping, currentNode)
    THEN LET st == ChainWalk(mapping, [current |-> currentNode, seen |-> {},
                                       chain |-> <<>>, thrown |-> FALSE])
         IN  [thrown |-> st.thrown, messages |-> ChainResult(st.chain)]
    ELSE FallbackEach(SortedNodes(mapping), <<>>)

(* ------------------------------------------------------------------ *)
(* parseMessage                                                         *)
(* ------------------------------------------------------------------ *)

\* The outcome of a call: the value returned, or an exception thrown.
Return(v) == [thrown |-> FALSE, v |-> v]
Throw == [thrown |-> TRUE, v |-> Undefined]

\* six decimal digits of a limb
Pad6(n) ==
    LET digit(d) == DigitChars[((n \div d) % 10) + 1]
    IN  <<digit(100000), digit(10000), digit(1000), digit(100), digit(10), digit(1)>>

\* String(n) for a number
NumToString(n) ==
    (IF n.neg /\ ~IsZero(n) THEN <<"-">> ELSE <<>>) \o
    (IF n.a > 0 THEN NatToString(n.a) \o Pad6(n.b) \o Pad6(n.c)
     ELSE IF n.b > 0 THEN NatToString(n.b) \o Pad6(n.c)
     ELSE NatToString(n.c))

\* JSON.stringify(v) (no character of the model's strings needs an escape)
RECURSIVE Stringify(_)
RECURSIVE StringifyItems(_)
RECURSIVE StringifyMembers(_)
Stringify(v) ==
    CASE v.t = "str" -> <<"\"">> \o v.s \o <<"\"">>
      [] v.t = "num" -> NumToString(v)
      [] v.t = "bool" -> IF v.b THEN <<"t", "r", "u", "e">> ELSE <<"f", "a", "l", "s", "e">>
      [] v.t = "arr" -> <<"[">> \o StringifyItems(v.a) \o <<"]">>
      [] v.t = "obj" -> <<"{">> \o StringifyMembers(v.o) \o <<"}">>
      [] OTHER -> <<"n", "u", "l", "l">>
StringifyItems(a) ==
    IF Len(a) = 0 THEN <<>>
    ELSE IF Len(a) = 1 THEN Stringify(a[1])
    ELSE Stringify(a[1]) \o <<",">> \o StringifyItems(Tail(a))
StringifyMembers(o) ==
    IF Len(o) = 0 THEN <<>>
    ELSE LET m == <<"\"">> \o o[1].k \o <<"\"", ":">> \o Stringify(o[1].v)
         IN  IF Len(o) = 1 THEN m ELSE m \o <<",">> \o StringifyMembers(Tail(o))

\* String(v), as Array.prototype.join converts an element
ToStringValue(v) ==
    CASE v.t = "str" -> v.s
      [] v.t = "num" -> NumToString(v)
      [] v.t = "bool" -> IF v.b THEN <<"t", "r", "u", "e">> ELSE <<"f", "a", "l", "s", "e">>
      [] v.t \in {"null", "undefined"} -> <<>>
      [] OTHER -> <<"[object]">>

\* the role before normalisation: role, author (a string, or its role, or
\* 'user'), sender, from, or ''
RawRole(msg) ==
    LET author == Get(msg, lit.author)
    IN  IF Truthy(Get(msg, lit.role)) THEN Get(msg, lit.role)
        ELSE IF Truthy(author)
             THEN (IF author.t = "str" THEN author ELSE Or(Get(author, lit.role), Str(lit.user)))
        ELSE IF Truthy(Get(msg, lit.sender)) THEN Get(msg, lit.sender)
        ELSE IF Truthy(Get(msg, lit.from)) THEN Get(msg, lit.from)
        ELSE Str(<<>>)

\* role.toLowerCase() and the mapping of the synonyms
NormalizeRole(role) ==
    LET lower == ToLowerCase(role)
    IN  IF lower \in {lit.model, lit.gemini, lit.ai, lit.bot} THEN lit.assistant
        ELSE IF lower = lit.human THEN lit.user
        ELSE lower

\* parts.filter(p => typeof p === 'string' || p.text).map(...).join('\n'):
\* throws when parts has no filter method or holds a null
PartsText(parts) ==
    IF parts.t # "arr" THEN Throw
    ELSE IF \E i \in 1..Len(parts.a) : Nullish(parts.a[i]) THEN Throw
    ELSE LET kept == SelectSeq(parts.a, LAMBDA p : p.t = "str" \/ Truthy(Get(p, lit.text)))
         IN  Return(Str(JoinNL([i \in 1..Len(kept) |->
                 IF kept[i].t = "str" THEN kept[i].s
                 ELSE ToStringValue(Get(kept[i], lit.text))])))

\* the content before trimming (any value), or an exception
RawContent(msg) ==
    LET content == Get(msg, lit.content)
    IN  IF Truthy(content)
        THEN (IF content.t = "str" THEN Return(content)
              ELSE IF Truthy(Get(content, lit.parts)) THEN PartsText(Get(content, lit.parts))
              ELSE IF Truthy(Get(content, lit.text)) THEN Return(Get(content, lit.text))
              ELSE Return(Str(<<>>)))
        ELSE IF Truthy(Get(msg, lit.parts)) THEN PartsText(Get(msg, lit.parts))
        ELSE IF Truthy(Get(msg, lit.text)) THEN Return(Get(msg, lit.text))
        ELSE IF Truthy(Get(msg, lit.message))
             THEN (IF Get(msg, lit.message).t = "str" THEN Return(Get(msg, lit.message))
                   ELSE Return(Str(Stringify(Get(msg, lit.message)))))
        ELSE Return(Str(<<>>))

\* msg.create_time || msg.created_at || msg.timestamp || msg.time || msg.date
MessageTime(msg) ==
    Or(Get(msg, lit.create_time), Or(Get(msg, lit.created_at), Or(Get(msg, lit.timestamp),
       Or(Get(msg, lit.time), Get(msg, lit.date)))))

\* parseMessage(msg): a message, null, or an exception (toLowerCase, filter
\* or trim is not a function, or a part is null)
parseMessage(msg) ==
    IF ~Truthy(msg) THEN Return(Null)
    ELSE With(RawRole(msg), LAMBDA role :
         With(RawContent(msg), LAMBDA content :
             IF role.t # "str" THEN Throw
             ELSE IF content.thrown THEN Throw
             ELSE IF content.v.t # "str" THEN Throw
             ELSE IF Len(Trim(content.v.s)) = 0 THEN Return(Null)
             ELSE Return(Message(Or(Str(NormalizeRole(role.s)), Str(lit.user)),
                                 Str(Trim(content.v.s)),
                                 parseTimestamp(MessageTime(msg))))))

\* messages.forEach(msg => { parsed = parseMessage(msg); if (parsed) push }):
\* the messages collected, or an exception
RECURSIVE ParseMessages(_, _)
ParseMessages(msgs, acc) ==
    IF Len(msgs) = 0 THEN Return(acc)
    ELSE With(parseMessage(Head(msgs)), LAMBDA parsed :
             IF parsed.thrown THEN Throw
             ELSE ParseMessages(Tail(msgs),
                                IF Truthy(parsed.v) THEN Append(acc, parsed.v) ELSE acc))

(* ------------------------------------------------------------------ *)
(* The conversation parsers.  Each takes this.conversations as it is    *)
(* and gives [thrown, convs]: the list as the call leaves it, and       *)
(* whether the call ended in an exception.                              *)
(* ------------------------------------------------------------------ *)

Conversation(id, title, createTime, updateTime, messages, isChatGPT) ==
    [t |-> "conversation", id |-> id, title |-> title, createTime |-> createTime,
     updateTime |-> updateTime, messages |-> messages, isChatGPT |-> isChatGPT]

Done(convs) == [thrown |-> FALSE, convs |-> convs]
Failed(convs) == [thrown |-> TRUE, convs |-> convs]

\* `会話 ${n}`, `conversation_${n}`, ...
Numbered(prefix, n) == prefix \o NatToString(n)
PlaceholderTitle(n) == Str(Numbered(lit.kaiwa \o <<" ">>, n))

\* node.message && author && author.role === 'user' && content &&
\* content.content_type === 'text', for a node that is not null
IsUserTextNode(node) ==
    LET message == Get(node, lit.message)
    IN  /\ Truthy(message)
        /\ Truthy(Get(message, lit.author))
        /\ Get(Get(message, lit.author), lit.role) = Str(lit.user)
        /\ Truthy(Get(message, lit.content))
        /\ Get(Get(message, lit.content), lit.content_type) = Str(lit.text)

\* extractConversationIdFromMapping(mapping): a node id, null, or an exception
\* (reading .message of a null node)
extractConversationIdFromMapping(mapping) ==
    LET nodeIds == ObjectKeys(mapping)
        stops == {i \in 1..Len(nodeIds) :
                     \/ Nullish(Get(mapping, nodeIds[i]))
                     \/ IsUserTextNode(Get(mapping, nodeIds[i]))}
        others == {i \in 1..Len(nodeIds) :
                     /\ nodeIds[i] # lit.client_created_root
                     /\ ~StartsWith(nodeIds[i], lit.client_prefix)}
        first(S) == CHOOSE i \in S : \A j \in S : i <= j
    IN  IF stops # {}
        THEN (IF Nullish(Get(mapping, nodeIds[first(stops)])) THEN Throw
              ELSE Return(Str(nodeIds[first(stops)])))
        ELSE IF others # {} THEN Return(Str(nodeIds[first(others)]))
        ELSE Return(Null)

\* the conversation id of a source record of parseArrayFormat, before the
\* synthesized fallback: a value, or an exception
ArrayConversationId(conv) ==
    With(Or(Get(conv, lit.id), Or(Get(conv, lit.conversation_id),
            Or(Get(conv, lit.chat_id), Get(conv, lit.uuid)))), LAMBDA own :
    With(IF ~Truthy(own) /\ Truthy(Get(conv, lit.current_node))
         THEN Get(conv, lit.current_node) ELSE own, LAMBDA node :
        IF ~Truthy(node) /\ Truthy(Get(conv, lit.mapping))
        THEN extractConversationIdFromMapping(Get(conv, lit.mapping))
        ELSE Return(node)))

\* the messages of a source record of parseArrayFormat: [thrown, v]
ArrayMessages(conv) ==
    With(Or(Get(conv, lit.messages), Or(Get(conv, lit.mapping),
            Or(Get(conv, lit.content), Or(Get(conv, lit.history), Arr(<<>>))))),
         LAMBDA messages :
        IF Truthy(Get(conv, lit.mapping))
        THEN With(parseMapping(Get(conv, lit.mapping), Get(conv, lit.current_node)),
                  LAMBDA r : IF r.thrown THEN Throw ELSE Return(r.messages))
        ELSE IF messages.t = "arr" THEN ParseMessages(messages.a, <<>>)
        ELSE Return(<<>>))

\* the synthesized id of the record at position index (from 0)
ArraySynthId(index) == Str(Numbered(lit.conversation_prefix, index + 1))

\* The body of conversations.forEach in parseArrayFormat, on the record conv at
\* position index (from 0).
ArrayRecord(conv, index, convs) ==
    IF Nullish(conv) THEN Failed(convs)
    ELSE With(ArrayConversationId(conv), LAMBDA id :
         With(ArrayMessages(conv), LAMBDA messages :
             IF id.thrown \/ messages.thrown THEN Failed(convs)
             ELSE IF Len(messages.v) > 0 \/ Truthy(Get(conv, lit.title))
             THEN Done(Append(convs,
                      Conversation(Or(id.v, ArraySynthId(index)),
                                   Or(Get(conv, lit.title),
                                      Or(Get(conv, lit.name), PlaceholderTitle(index + 1))),
                                   parseTimestamp(Or(Get(conv, lit.create_time),
                                       Or(Get(conv, lit.created_at),
                                          Or(Get(conv, lit.created), Get(conv, lit.timestamp))))),
                                   parseTimestamp(Or(Get(conv, lit.update_time),
                                       Or(Get(conv, lit.updated_at),
                                          Or(Get(conv, lit.updated), Get(conv, lit.modified))))),
                                   messages.v,
                                   Truthy(Get(conv, lit.mapping)))))
             ELSE Done(convs)))

RECURSIVE ArrayEach(_, _, _)
ArrayEach(list, index, convs) ==
    IF index >= Len(list) THEN Done(convs)
    ELSE With(ArrayRecord(list[index + 1], index, convs), LAMBDA r :
             IF r.thrown THEN r ELSE ArrayEach(list, index + 1, r.convs))

\* parseArrayFormat(conversations): forEach is not a function of a non-array
parseArrayFormat(conversations, convs) ==
    IF conversations.t # "arr" THEN Failed(convs)
    ELSE ArrayEach(conversations.a, 0, convs)

\* The body of chats.forEach in parseTakeoutFormat.
TakeoutRecord(chat, index, convs) ==
    IF Nullish(chat) THEN Failed(convs)
    ELSE With(Or(Get(chat, lit.messages), Or(Get(chat, lit.contents),
                 Or(Get(chat, lit.turns), Arr(<<>>)))), LAMBDA messages :
         With(IF messages.t = "arr" THEN ParseMessages(messages.a, <<>>) ELSE Throw,
              LAMBDA parsed :
             IF parsed.thrown THEN Failed(convs)
             ELSE IF Len(parsed.v) > 0
             THEN Done(Append(convs,
                      Conversation(Or(Get(chat, lit.id), Str(Numbered(lit.chat_prefix, index + 1))),
                                   Or(Get(chat, lit.title),
                                      Or(Get(chat, lit.name), PlaceholderTitle(index + 1))),
                                   parseTimestamp(Or(Get(chat, lit.createTime), Get(chat, lit.created))),
                                   parseTimestamp(Or(Get(chat, lit.updateTime), Get(chat, lit.modified))),
                                   parsed.v, FALSE)))
             ELSE Done(convs)))

RECURSIVE TakeoutEach(_, _, _)
TakeoutEach(list, index, convs) ==
    IF index >= Len(list) THEN Done(convs)
    ELSE With(TakeoutRecord(list[index + 1], index, convs), LAMBDA r :
             IF r.thrown THEN r ELSE TakeoutEach(list, index + 1, r.convs))

parseTakeoutFormat(chats, convs) ==
    IF chats.t # "arr" THEN Done(convs)
    ELSE TakeoutEach(chats.a, 0, convs)

parseSingleConversation(data, convs) ==
    With(Or(Get(data, lit.messages), Or(Get(data, lit.content),
            Or(Get(data, lit.history), Arr(<<>>)))), LAMBDA messages :
    With(IF messages.t = "arr" THEN ParseMessages(messages.a, <<>>) ELSE Throw,
         LAMBDA parsed :
        IF parsed.thrown THEN Failed(convs)
        ELSE IF Len(parsed.v) > 0
        THEN Done(Append(convs,
                 Conversation(Or(Get(data, lit.id), Str(lit.conversation_1)),
                              Or(Get(data, lit.title), Or(Get(data, lit.name), Str(lit.kaiwa))),
                              parseTimestamp(Or(Get(data, lit.create_time), Get(data, lit.created_at))),
                              parseTimestamp(Or(Get(data, lit.update_time), Get(data, lit.updated_at))),
                              parsed.v, FALSE)))
        ELSE Done(convs)))

\* parts.forEach(part => { if (part.text) push }) of parseApiFormat, for the
\* role of the turn: the messages collected, or an exception (a null part)
RECURSIVE ApiParts(_, _, _)
ApiParts(parts, role, acc) ==
    IF Len(parts) = 0 THEN Return(acc)
    ELSE IF Nullish(Head(parts)) THEN Throw
    ELSE ApiParts(Tail(parts), role,
                  IF Truthy(Get(Head(parts), lit.text))
                  THEN Append(acc, Message(IF role = Str(lit.model) THEN Str(lit.assistant) ELSE role,
                                           Get(Head(parts), lit.text), Null))
                  ELSE acc)

\* data.contents.forEach(...)
RECURSIVE ApiContents(_, _)
ApiContents(contents, acc) ==
    IF Len(contents) = 0 THEN Return(acc)
    ELSE IF Nullish(Head(contents)) THEN Throw
    ELSE With(Or(Get(Head(contents), lit.role), Str(lit.user)), LAMBDA role :
         With(Or(Get(Head(contents), lit.parts), Arr(<<>>)), LAMBDA parts :
         With(IF parts.t = "arr" THEN ApiParts(parts.a, role, acc) ELSE Throw, LAMBDA r :
             IF r.thrown THEN Throw ELSE ApiContents(Tail(contents), r.v))))

\* parseApiFormat(data), called with a truthy data.contents; created and updated
\* are the two readings of the clock (new Date()) the conversation is built from
parseApiFormat(data, created, updated, convs) ==
    With(Get(data, lit.contents), LAMBDA contents :
    With(IF contents.t = "arr" THEN ApiContents(contents.a, <<>>) ELSE Throw, LAMBDA r :
        IF r.thrown THEN Failed(convs)
        ELSE IF Len(r.v) > 0
        THEN Done(Append(convs, Conversation(Str(lit.api_conversation_1), Str(lit.kaiwa),
                                             created, updated, r.v, FALSE)))
        ELSE Done(convs)))

(* ------------------------------------------------------------------ *)
(* stripHtml: the chain of global regular-expression replacements       *)
(* ------------------------------------------------------------------ *)

\* A pattern is [heads, tail, ci]: one of the literal heads (all of one length),
\* compared without case when ci, followed by the tail:
\*   "none"    nothing more
\*   "attrs"   [^>]*>      "some"  [^>]+>      "close"   \s*\/?>
Pattern(heads, tail, ci) == [heads |-> heads, tail |-> tail, ci |-> ci]

\* the first index >= from at which s holds a character of / not of the set, or 0
FirstIn(s, from, chars) ==
    LET hits == {k \in from..Len(s) : s[k] \in chars}
    IN  IF hits = {} THEN 0 ELSE CHOOSE k \in hits : \A j \in hits : k <= j
FirstNotIn(s, from, chars) ==
    LET hits == {k \in from..Len(s) : s[k] \notin chars}
    IN  IF hits = {} THEN 0 ELSE CHOOSE k \in hits : \A j \in hits : k <= j

\* the length of the match of pat in s that starts at index i, or 0
MatchLen(pat, s, i) ==
    LET n == Len(CHOOSE h \in pat.heads : TRUE)
        at == IF i + n - 1 <= Len(s) THEN SubSeq(s, i, i + n - 1) ELSE <<>>
        head == (IF pat.ci THEN ToLowerCase(at) ELSE at) \in pat.heads
        gt == FirstIn(s, i + n, {">"})
        nb == FirstNotIn(s, i + n, WhiteSpace \ {">"})
        afterSlash == IF nb > 0 /\ s[nb] = "/" THEN nb + 1 ELSE nb
    IN  IF ~head THEN 0
        ELSE CASE pat.tail = "none" -> n
               [] pat.tail = "attrs" -> IF gt = 0 THEN 0 ELSE gt - i + 1
               [] pat.tail = "some" -> IF gt = 0 \/ gt = i + n THEN 0 ELSE gt - i + 1
               [] OTHER -> IF nb > 0 /\ afterSlash <= Len(s) /\ s[afterSlash] = ">"
                           THEN afterSlash - i + 1 ELSE 0

\* the first index >= i at which pat matches s, or 0
NextMatch(pat, s, i) ==
    LET hits == {k \in i..Len(s) : MatchLen(pat, s, k) > 0}
    IN  IF hits = {} THEN 0 ELSE CHOOSE k \in hits : \A j \in hits : k <= j

\* s.replace(/pat/g, rep), scanning from index i: the matches from the left,
\* none overlapping another
RECURSIVE ReplaceFrom(_, _, _, _)
ReplaceFrom(pat, rep, s, i) ==
    With(NextMatch(pat, s, i), LAMBDA k :
        IF k = 0 THEN SubSeq(s, i, Len(s))
        ELSE SubSeq(s, i, k - 1) \o rep \o ReplaceFrom(pat, rep, s, k + MatchLen(pat, s, k)))

ReplaceAll(pat, rep, s) == ReplaceFrom(pat, rep, s, 1)

\* s.replace(/\n{3,}/g, '\n\n'), scanning from index i
RECURSIVE CollapseFrom(_, _)
CollapseFrom(s, i) ==
    LET hits == {k \in i..(Len(s) - 2) : s[k] = "\n" /\ s[k + 1] = "\n" /\ s[k + 2] = "\n"}
        k == IF hits = {} THEN 0 ELSE CHOOSE h \in hits : \A j \in hits : h <= j
        stop == FirstNotIn(s, k, {"\n"})
    IN  IF k = 0 THEN SubSeq(s, i, Len(s))
        ELSE SubSeq(s, i, k - 1) \o <<"\n", "\n">> \o
             (IF stop = 0 THEN <<>> ELSE CollapseFrom(s, stop))

Heading == {<<"<", "h", d>> : d \in {"1", "2", "3", "4", "5", "6"}}
HeadingEnd == {<<"<", "/", "h", d, ">">> : d \in {"1", "2", "3", "4", "5", "6"}}

\* the replacements of stripHtml, in the order of the chain: [pat, rep]
StripRules ==
    << [pat |-> Pattern({<<"<", "b", "r">>}, "close", TRUE), rep |-> <<"\n">>],
       [pat |-> Pattern({<<"<", "p">>}, "attrs", TRUE), rep |-> <<"\n">>],
       [pat |-> Pattern({<<"<", "/", "p", ">">>}, "none", TRUE), rep |-> <<"\n">>],
       [pat |-> Pattern({<<"<", "l", "i">>}, "attrs", TRUE), rep |-> <<"-", " ">>],
       [pat |-> Pattern({<<"<", "/", "l", "i", ">">>}, "none", TRUE), rep |-> <<"\n">>],
       [pat |-> Pattern(Heading, "attrs", TRUE), rep |-> <<"\n", "#", "#", "#", " ">>],
       [pat |-> Pattern(HeadingEnd, "none", TRUE), rep |-> <<"\n">>],
       [pat |-> Pattern({<<"<", "h", "r">>}, "close", TRUE),
        rep |-> <<"\n", "-", "-", "-", "\n">>],
       [pat |-> Pattern({<<"<">>}, "some", FALSE), rep |-> <<>>],
       [pat |-> Pattern({<<"&", "l", "t", ";">>}, "none", FALSE), rep |-> <<"<">>],
       [pat |-> Pattern({<<"&", "g", "t", ";">>}, "none", FALSE), rep |-> <<">">>],
       [pat |-> Pattern({<<"&", "a", "m", "p", ";">>}, "none", FALSE), rep |-> <<"&">>],
       [pat |-> Pattern({<<"&", "q", "u", "o", "t", ";">>}, "none", FALSE), rep |-> <<"\"">>],
       [pat |-> Pattern({<<"&", "#", "3", "9", ";">>}, "none", FALSE), rep |-> <<"'">>] >>

\* s.replace(...).replace(...)...: the rules lo..hi applied in turn, each to the
\* result of the one before (the first half of the rules, then the second)
RECURSIVE ReplaceChain(_, _, _)
ReplaceChain(s, lo, hi) ==
    IF lo = hi THEN ReplaceAll(StripRules[lo].pat, StripRules[lo].rep, s)
    ELSE CHOOSE r \in {ReplaceChain(half, ((lo + hi) \div 2) + 1, hi) :
                           half \in {ReplaceChain(s, lo, (lo + hi) \div 2)}} : TRUE

\* stripHtml(html) for a non-empty string html
StripTags(html) == Trim(CollapseFrom(ReplaceChain(html, 1, Len(StripRules)), 1))

\* stripHtml(html): '' for a falsy html; replace is not a function of a
\* truthy html that is no string
stripHtml(html) ==
    IF ~Truthy(html) THEN Return(Str(<<>>))
    ELSE IF html.t # "str" THEN Throw
    ELSE Return(Str(StripTags(html.s)))

(* ------------------------------------------------------------------ *)
(* parseGeminiActivityFormat                                            *)
(* ------------------------------------------------------------------ *)

\* the length of the title kept: userMessage.substring(0, 50)
TitleLength == 50

\* v.length > 0 for a truthy v: arrays and strings have a length
HasItems(v) == (v.t = "arr" /\ Len(v.a) > 0) \/ (v.t = "str" /\ Len(v.s) > 0)

\* v[0] for a v with items
FirstItem(v) == IF v.t = "arr" THEN v.a[1] ELSE Str(<<v.s[1]>>)

\* the user's text of an activity: the title, without the prefix and trimmed
\* when it starts with the prefix; startsWith is not a function of a truthy
\* title that is no string
ActivityUserMessage(activity) ==
    LET title == Get(activity, lit.title)
    IN  IF ~Truthy(title) THEN Return(Str(<<>>))
        ELSE IF title.t # "str" THEN Throw
        ELSE IF StartsWith(title.s, lit.sent_message_prefix)
             THEN Return(Str(Trim(SubSeq(title.s, Len(lit.sent_message_prefix) + 1, Len(title.s)))))
        ELSE Return(title)

\* the AI's text of an activity: stripHtml of the first safeHtmlItem's html
ActivityAiResponse(activity) ==
    LET items == Get(activity, lit.safeHtmlItem)
    IN  IF Truthy(items) /\ HasItems(items)
        THEN (IF Nullish(FirstItem(items)) THEN Throw
              ELSE stripHtml(Or(Get(FirstItem(items), lit.html), Str(<<>>))))
        ELSE Return(Str(<<>>))

\* userMessage.substring(0, 50) + (userMessage.length > 50 ? '...' : '') || `会話 ${n}`
ActivityTitle(userMessage, n) ==
    Or(Str(SubSeq(userMessage, 1, IF Len(userMessage) < TitleLength
                                  THEN Len(userMessage) ELSE TitleLength)
           \o (IF Len(userMessage) > TitleLength THEN lit.ellipsis ELSE <<>>)),
       PlaceholderTitle(n))

\* the id of the activity at position index (from 0) of the reversed array
ActivityId(index) == Str(Numbered(lit.gemini_activity_prefix, index + 1))

\* The body of sortedActivities.forEach.
ActivityRecord(activity, index, convs) ==
    IF Nullish(activity) THEN Failed(convs)
    ELSE With(ActivityUserMessage(activity), LAMBDA user :
         With(ActivityAiResponse(activity), LAMBDA ai :
         With(IF Truthy(Get(activity, lit.time))
              THEN NewDate(Get(activity, lit.time)) ELSE Null, LAMBDA timestamp :
             IF user.thrown \/ ai.thrown THEN Failed(convs)
             ELSE With((IF Truthy(user.v)
                        THEN <<Message(Str(lit.user), user.v, timestamp)>> ELSE <<>>)
                       \o (IF Len(Trim(ai.v.s)) > 0
                           THEN <<Message(Str(lit.assistant), Str(Trim(ai.v.s)), timestamp)>>
                           ELSE <<>>), LAMBDA messages :
                      IF Len(messages) > 0
                      THEN Done(Append(convs,
                               Conversation(ActivityId(index),
                                            ActivityTitle(user.v.s, index + 1),
                                            timestamp, timestamp, messages, FALSE)))
                      ELSE Done(convs)))))

RECURSIVE ActivityEach(_, _, _)
ActivityEach(list, index, convs) ==
    IF index >= Len(list) THEN Done(convs)
    ELSE With(ActivityRecord(list[index + 1], index, convs), LAMBDA r :
             IF r.thrown THEN r ELSE ActivityEach(list, index + 1, r.convs))

\* [...activities].reverse()
SortedActivitiesUnreversed(activities) == activities
SortedActivities(activities) == Reverse(activities)

parseGeminiActivityFormat(activities, convs) ==
    IF activities.t # "arr" THEN Done(convs)
    ELSE ActivityEach(SortedActivities(activities.a), 0, convs)

(* ------------------------------------------------------------------ *)
(* parseGenericFormat                                                   *)
(* ------------------------------------------------------------------ *)

\* the key/value pairs Object.keys(obj) walks: of an array, its indices
Entries(obj) ==
    IF obj.t = "arr" THEN [i \in 1..Len(obj.a) |-> P(NatToString(i - 1), obj.a[i])]
    ELSE obj.o

\* firstItem && (firstItem.messages || firstItem.content || firstItem.parts || firstItem.role)
LooksLikeConversations(obj) ==
    /\ obj.t = "arr" /\ Len(obj.a) > 0
    /\ Truthy(obj.a[1])
    /\ \/ Truthy(Get(obj.a[1], lit.messages)) \/ Truthy(Get(obj.a[1], lit.content))
       \/ Truthy(Get(obj.a[1], lit.parts)) \/ Truthy(Get(obj.a[1], lit.role))

\* the key names that make an array value a conversation list
KeyNamesConversations(key) ==
    LET lower == ToLowerCase(key)
    IN  \/ Includes(lower, lit.conversation) \/ Includes(lower, lit.chat)
        \/ Includes(lower, lit.message) \/ Includes(lower, lit.history)

\* findConversations(obj) and its loop over the keys, from entry i on
RECURSIVE FindConversations(_, _)
RECURSIVE FindInEntries(_, _, _)
FindConversations(obj, convs) ==
    IF ~Truthy(obj) \/ obj.t \notin {"arr", "obj"} THEN Done(convs)
    ELSE IF LooksLikeConversations(obj) THEN parseArrayFormat(obj, convs)
    ELSE FindInEntries(Entries(obj), 1, convs)
FindInEntries(entries, i, convs) ==
    IF i > Len(entries) THEN Done(convs)
    ELSE With(entries[i].v, LAMBDA value :
         With(IF KeyNamesConversations(entries[i].k) /\ value.t = "arr"
              THEN parseArrayFormat(value, convs) ELSE Done(convs), LAMBDA r1 :
         With(IF r1.thrown THEN r1 ELSE FindConversations(value, r1.convs), LAMBDA r2 :
             IF r2.thrown THEN r2 ELSE FindInEntries(entries, i + 1, r2.convs))))

parseGenericFormat(data, convs) == FindConversations(data, convs)

(* ------------------------------------------------------------------ *)
(* parseConversations                                                   *)
(* ------------------------------------------------------------------ *)

SourceAI == "AI"
SourceGemini == "Gemini"
SourceChatGPT == "ChatGPT"

geminiPatterns == <<lit.myactivity_json, lit.myactivity_ja_json, lit.my_activity_json, lit.gemini>>
chatgptPatterns == <<lit.conversations_json, lit.chatgpt>>

\* patterns.some(pattern => lowerName.includes(pattern.toLowerCase()))
SomePattern(patterns, lowerName) ==
    \E i \in 1..Len(patterns) : Includes(lowerName, ToLowerCase(patterns[i]))

\* detectSourceFromFileName(): the value of detectedSource it leaves, given the
\* file name of the component (undefined before the first file) and the
\* value it finds
detectSourceFromFileName(name, detected) ==
    IF ~Truthy(name) THEN detected
    ELSE LET lowerName == ToLowerCase(name.s)
         IN  IF SomePattern(geminiPatterns, lowerName) THEN SourceGemini
             ELSE IF SomePattern(chatgptPatterns, lowerName) THEN SourceChatGPT
             ELSE detected

\* Array.isArray(jsonData) && jsonData.length > 0
NonEmptyArray(data) == data.t = "arr" /\ Len(data.a) > 0

\* header.includes('Gemini') for a truthy header: a substring of a string, an
\* element of an array, and no function of anything else
HeaderIncludes(header) ==
    IF header.t = "str" THEN Return(Includes(header.s, lit.Gemini))
    ELSE IF header.t = "arr"
         THEN Return(\E i \in 1..Len(header.a) : header.a[i] = Str(lit.Gemini))
    ELSE Throw

\* The if / else if chain of parseConversations: the branch it takes for the
\* parsed JSON value, "a" .. "h" in the order of the chain, or "throw" when a
\* condition of the chain raises a TypeError before any branch is taken.
ShapeOf(data) ==
    IF NonEmptyArray(data) /\ Nullish(data.a[1]) THEN "throw"
    ELSE IF NonEmptyArray(data) /\ Truthy(Get(data.a[1], lit.header))
            /\ HeaderIncludes(Get(data.a[1], lit.header)).thrown THEN "throw"
    ELSE IF NonEmptyArray(data) /\ Truthy(Get(data.a[1], lit.header))
            /\ HeaderIncludes(Get(data.a[1], lit.header)).v THEN "a"
    ELSE IF NonEmptyArray(data) /\ Truthy(Get(data.a[1], lit.mapping)) THEN "b"
    ELSE IF data.t = "arr" THEN "c"
    ELSE IF Nullish(data) THEN "throw"
    ELSE IF Truthy(Get(data, lit.conversations)) THEN "d"
    ELSE IF Truthy(Get(data, lit.chats)) \/ Truthy(Get(data, lit.history)) THEN "e"
    ELSE IF Truthy(Get(data, lit.messages)) \/ Truthy(Get(data, lit.content)) THEN "f"
    ELSE IF Truthy(Get(data, lit.contents)) THEN "g"
    ELSE "h"

\* the assignment to detectedSource at the head of the branch taken
ShapeSourceFromName(shape, detected) == detected
ShapeSource(shape, detected) ==
    IF shape \in {"a", "e", "g"} THEN SourceGemini
    ELSE IF shape = "b" THEN SourceChatGPT
    ELSE detected

\* the parser call of the branch taken
ShapeParse(shape, data, created, updated) ==
    CASE shape = "a" -> parseGeminiActivityFormat(data, <<>>)
      [] shape \in {"b", "c"} -> parseArrayFormat(data, <<>>)
      [] shape = "d" -> parseArrayFormat(Get(data, lit.conversations), <<>>)
      [] shape = "e" -> parseTakeoutFormat(Or(Get(data, lit.chats), Get(data, lit.history)), <<>>)
      [] shape = "f" -> parseSingleConversation(data, <<>>)
      [] shape = "g" -> parseApiFormat(data, created, updated, <<>>)
      [] shape = "h" -> parseGenericFormat(data, <<>>)
      [] OTHER -> Failed(<<>>)

\* detectedSource === 'AI' && conversations.some(c => c._isChatGPT)
SourceAfterParse(detected, convs) ==
    IF detected = SourceAI /\ \E i \in 1..Len(convs) : convs[i].isChatGPT
    THEN SourceChatGPT ELSE detected

\* parseConversations() on the component's fileName and jsonData: what it leaves
\* in conversations and detectedSource, the branch it took, and whether it
\* raised an error (the fields keep what was assigned before the error).
parseConversations(name, data, created, updated) ==
    With(ShapeOf(data), LAMBDA shape :
    With(ShapeSource(shape, detectSourceFromFileName(name, SourceAI)), LAMBDA detected :
    With(ShapeParse(shape, data, created, updated), LAMBDA r :
        [thrown |-> r.thrown,
         conversations |-> r.convs,
         detectedSource |-> IF r.thrown THEN detected
                            ELSE SourceAfterParse(detected, r.convs),
         shape |-> shape])))

(* ------------------------------------------------------------------ *)
(* Dates as the export reads them                                       *)
(* ------------------------------------------------------------------ *)

\* `${n}` for an integer
IntToString(n) == IF n < 0 THEN <<"-">> \o NatToString(0 - n) ELSE NatToString(n)

\* String(n).padStart(width, '0')
RECURSIVE PadStart(_, _)
PadStart(s, width) == IF Len(s) >= width THEN s ELSE PadStart(<<"0">> \o s, width)

\* The time value of a valid date, cut into whole days since the epoch, the
\* second of the day and the millisecond of the second (all floored).  The
\* time value is a * 10^12 + b * 10^6 + c milliseconds with a <= 8640, and
\* 10^9 seconds are 11574 days and 6400 seconds.
TimeParts(date) ==
    With(IF date.neg
         THEN 0 - ((date.a * 6400) + (date.b * 1000) + ((date.c + 999) \div 1000))
         ELSE (date.a * 6400) + (date.b * 1000) + (date.c \div 1000), LAMBDA rest :
        [day |-> (IF date.neg THEN 0 - (date.a * 11574) ELSE date.a * 11574)
                 + (rest \div 86400),
         second |-> rest % 86400,
         ms |-> IF date.neg THEN (1000 - (date.c % 1000)) % 1000 ELSE date.c % 1000])

\* the year, the month (1 to 12) and the day of the month of a day number
CivilFromDays(day) ==
    With((day + 719468) % 146097, LAMBDA doe :
    With(((doe - (doe \div 1460)) + (doe \div 36524) - (doe \div 146096)) \div 365, LAMBDA yoe :
    With(doe - (((365 * yoe) + (yoe \div 4)) - (yoe \div 100)), LAMBDA doy :
    With(((5 * doy) + 2) \div 153, LAMBDA mp :
        [year |-> yoe + (400 * ((day + 719468) \div 146097)) + (IF mp < 10 THEN 0 ELSE 1),
         month |-> IF mp < 10 THEN mp + 3 ELSE mp - 9,
         date |-> (doy - (((153 * mp) + 2) \div 5)) + 1]))))

\* getFullYear(), getMonth() + 1, getDate(), getHours(), getMinutes() of a
\* valid date, in the local time that is zone minutes ahead of UTC; and
\* getUTCSeconds(), getUTCMilliseconds()
DateFields(date, zone) ==
    With(TimeParts(date), LAMBDA parts :
    With((parts.second \div 60) + zone, LAMBDA minute :
    With(CivilFromDays(parts.day + (minute \div 1440)), LAMBDA civil :
        [year |-> civil.year, month |-> civil.month, date |-> civil.date,
         hours |-> (minute % 1440) \div 60, minutes |-> minute % 60,
         seconds |-> parts.second % 60, ms |-> parts.ms])))

NaNText == <<"N", "a", "N">>

\* `${date.getFullYear()}`: NaN for an invalid date
YearText(date, zone) ==
    IF date.valid THEN IntToString(DateFields(date, zone).year) ELSE NaNText

\* `${date.getFullYear()}-${String(date.getMonth() + 1).padStart(2, '0')}`
MonthKey(date, zone) ==
    IF date.valid
    THEN With(DateFields(date, zone), LAMBDA f :
             IntToString(f.year) \o <<"-">> \o PadStart(NatToString(f.month), 2))
    ELSE NaNText \o <<"-">> \o NaNText

\* date.toISOString(): the UTC fields, the year in four digits or, outside
\* 0..9999, signed in six; a RangeError for an invalid date
toISOString(date) ==
    IF ~date.valid THEN Throw
    ELSE With(DateFields(date, 0), LAMBDA f :
             Return((IF f.year >= 0 /\ f.year <= 9999 THEN PadStart(NatToString(f.year), 4)
                     ELSE IF f.year < 0 THEN <<"-">> \o PadStart(NatToString(0 - f.year), 6)
                     ELSE <<"+">> \o PadStart(NatToString(f.year), 6))
                    \o <<"-">> \o PadStart(NatToString(f.month), 2)
                    \o <<"-">> \o PadStart(NatToString(f.date), 2)
                    \o <<"T">> \o PadStart(NatToString(f.hours), 2)
                    \o <<":">> \o PadStart(NatToString(f.minutes), 2)
                    \o <<":">> \o PadStart(NatToString(f.seconds), 2)
                    \o <<".">> \o PadStart(NatToString(f.ms), 3) \o <<"Z">>))

\* formatISODate(date), for the null or Date the parsers leave
formatISODate(date) == IF ~Truthy(date) THEN Return(<<>>) ELSE toISOString(date)

(* ------------------------------------------------------------------ *)
(* File names                                                           *)
(* ------------------------------------------------------------------ *)

\* name.replace(/[\\/:*?"<>|]/g, '_')
ReplaceReserved(name) ==
    [i \in 1..Len(name) |->
        IF name[i] \in {"\\", "/", ":", "*", "?", "\"", "<", ">", "|"} THEN "_" ELSE name[i]]

\* name.replace(/\s+/g, '_'): one underscore for each run of white space
RECURSIVE ReplaceSpaceRuns(_)
ReplaceSpaceRuns(name) ==
    IF Len(name) = 0 THEN <<>>
    ELSE IF name[1] \notin WhiteSpace THEN <<name[1]>> \o ReplaceSpaceRuns(Tail(name))
    ELSE IF Len(name) > 1 /\ name[2] \in WhiteSpace THEN ReplaceSpaceRuns(Tail(name))
    ELSE <<"_">> \o ReplaceSpaceRuns(Tail(name))

\* sanitizeFilename(name)
sanitizeFilename(name) ==
    With(ReplaceSpaceRuns(ReplaceReserved(name)), LAMBDA replaced :
        SubSeq(replaced, 1, IF Len(replaced) < 100 THEN Len(replaced) ELSE 100))

HexChars == {"0", "1", "2", "3", "4", "5", "6", "7", "8", "9", "a", "b", "c", "d", "e", "f",
             "A", "B", "C", "D", "E", "F"}

\* uuidPattern.test(title)
UuidPatternTest(title) ==
    /\ Len(title) = 36
    /\ \A i \in 1..36 : IF i \in {9, 14, 19, 24} THEN title[i] = "-" ELSE title[i] \in HexChars

\* title && title.trim() !== '' && !uuidPattern.test(title) &&
\* title !== `会話 ${index + 1}`, for a title that is a string
IsValidTitle(title, index) ==
    /\ Len(title.s) > 0
    /\ Len(Trim(title.s)) > 0
    /\ ~UuidPatternTest(title.s)
    /\ title # PlaceholderTitle(index + 1)

\* generateFilename(conv, index, prefix); a truthy title that is no string has
\* no trim, and the call throws
generateFilename(conv, index, prefix, zone) ==
    IF Truthy(conv.title) /\ conv.title.t # "str" THEN Throw
    ELSE IF conv.title.t = "str" /\ IsValidTitle(conv.title, index)
    THEN Return(sanitizeFilename(conv.title.s))
    ELSE IF Truthy(conv.createTime)
    THEN Return(prefix \o <<"_">>
                \o (IF conv.createTime.valid
                    THEN With(DateFields(conv.createTime, zone), LAMBDA f :
                             IntToString(f.year) \o PadStart(NatToString(f.month), 2)
                             \o PadStart(NatToString(f.date), 2) \o <<"_">>
                             \o PadStart(NatToString(f.hours), 2)
                             \o PadStart(NatToString(f.minutes), 2))
                    ELSE NaNText \o NaNText \o NaNText \o <<"_">> \o NaNText \o NaNText)
                \o <<"_">> \o PadStart(NatToString(index + 1), 3))
    ELSE Return(prefix \o lit.conversation_infix
                \o PadStart(NatToString(index + 1), 3))

(* ------------------------------------------------------------------ *)
(* Grouping                                                             *)
(* ------------------------------------------------------------------ *)

\* conv.createTime || conv.updateTime || new Date()
GroupDate(conv, now) == Or(conv.createTime, Or(conv.updateTime, now))

\* the key groupByMonth / groupByYear gives a conversation
GroupKey(byMonth, conv, now, zone) ==
    IF byMonth THEN MonthKey(GroupDate(conv, now), zone)
    ELSE YearText(GroupDate(conv, now), zone)

\* groups.get(key).push(conv), on a new entry at the end if groups has none
\* for the key
AddToGroup(groups, key, conv) ==
    IF \E i \in 1..Len(groups) : groups[i].key = key
    THEN [i \in 1..Len(groups) |->
             IF groups[i].key = key
             THEN [key |-> key, convs |-> Append(groups[i].convs, conv)]
             ELSE groups[i]]
    ELSE Append(groups, [key |-> key, convs |-> <<conv>>])

\* this.conversations.forEach(...) of groupByMonth / groupByYear
RECURSIVE GroupEach(_, _, _, _, _)
GroupEach(byMonth, convs, now, zone, groups) ==
    IF Len(convs) = 0 THEN groups
    ELSE GroupEach(byMonth, Tail(convs), now, zone,
                   AddToGroup(groups, GroupKey(byMonth, Head(convs), now, zone), Head(convs)))

\* the UTF-16 code unit of a character of String([key, convs]); every
\* conversation of an entry reads [object Object]
CodeUnit(c) ==
    CASE c = "," -> 44
      [] c = "-" -> 45
      [] \E d \in 1..10 : DigitChars[d] = c ->
             47 + (CHOOSE d \in 1..10 : DigitChars[d] = c)
      [] c = "N" -> 78
      [] c = "[object Object]" -> 91
      [] c = "a" -> 97

\* String(entry) of an entry [key, convs] of the map
EntryText(group) ==
    group.key \o [i \in 1..(2 * Len(group.convs)) |->
                     IF i % 2 = 1 THEN "," ELSE "[object Object]"]

\* x < y for strings, by code units
RECURSIVE TextLess(_, _)
TextLess(x, y) ==
    IF Len(y) = 0 THEN FALSE
    ELSE IF Len(x) = 0 THEN TRUE
    ELSE IF x[1] # y[1] THEN CodeUnit(x[1]) < CodeUnit(y[1])
    ELSE TextLess(Tail(x), Tail(y))

\* [...groups.entries()].sort(): a stable sort by String(entry)
RECURSIVE InsertEntry(_, _)
InsertEntry(sorted, group) ==
    IF Len(sorted) = 0 THEN <<group>>
    ELSE IF TextLess(EntryText(group), EntryText(sorted[Len(sorted)]))
         THEN Append(InsertEntry(SubSeq(sorted, 1, Len(sorted) - 1), group), sorted[Len(sorted)])
         ELSE Append(sorted, group)

SortEntriesAsInserted(groups) == groups

RECURSIVE SortEntries(_)
SortEntries(groups) ==
    IF Len(groups) = 0 THEN <<>>
    ELSE InsertEntry(SortEntries(SubSeq(groups, 1, Len(groups) - 1)), groups[Len(groups)])

\* groupByMonth() and groupByYear(): the entries of the map returned, in order
groupByMonth(convs, now, zone) == SortEntries(GroupEach(TRUE, convs, now, zone, <<>>))
groupByYear(convs, now, zone) == SortEntries(GroupEach(FALSE, convs, now, zone, <<>>))

\* getUniqueMonths().size, getUniqueYears().size
UniqueKeys(byMonth, convs, now, zone) ==
    Cardinality({GroupKey(byMonth, convs[i], now, zone) : i \in 1..Len(convs)})

\* updateOutputFileCount(): the text written to outputFiles
OutputFileCount(type, convs, now, zone) ==
    CASE type = "per_chat" -> Len(convs)
      [] type = "per_month" -> UniqueKeys(TRUE, convs, now, zone)
      [] type = "per_year" -> UniqueKeys(FALSE, convs, now, zone)

(* ------------------------------------------------------------------ *)
(* Markdown                                                             *)
(* ------------------------------------------------------------------ *)

\* The times a conversation is rendered with, in the order in which
\* formatISODate is called on them: createTime and updateTime when known (in
\* the front matter and again under the heading if twice is set), then the
\* known timestamps of the messages.
KnownTimes(conv, twice) ==
    With(SelectSeq(<<conv.createTime, conv.updateTime>>, Truthy), LAMBDA head :
        (IF twice THEN head \o head ELSE head)
        \o SelectSeq([i \in 1..Len(conv.messages) |-> conv.messages[i].timestamp], Truthy))

\* The Markdown of one conversation, as what varies in it: the title, the id,
\* the formatted times, and the label and the content of every message.  The
\* call throws when a time is an invalid date.
RenderConversation(conv, twice) ==
    With(KnownTimes(conv, twice), LAMBDA times :
        IF \E i \in 1..Len(times) : formatISODate(times[i]).thrown THEN Throw
        ELSE Return([title |-> Or(conv.title, Str(lit.kaiwa)),
                     id |-> conv.id,
                     times |-> [i \in 1..Len(times) |-> formatISODate(times[i]).v],
                     messages |-> [i \in 1..Len(conv.messages) |->
                                      [label |-> IF conv.messages[i].role = Str(lit.user)
                                                 THEN "User" ELSE "Assistant",
                                       content |-> conv.messages[i].content]]]))

\* conversationToMarkdown(conv): (conv.title || '会話').replace throws on a
\* title that is no string
conversationToMarkdown(conv) ==
    IF Truthy(conv.title) /\ conv.title.t # "str" THEN Throw
    ELSE RenderConversation(conv, TRUE)

\* multiConversationsToMarkdown(conversations, periodKey): conv.id.startsWith
\* throws on a truthy id that is no string
multiConversationsToMarkdown(convs, periodKey) ==
    IF \E i \in 1..Len(convs) :
           \/ (Truthy(convs[i].id) /\ convs[i].id.t # "str")
           \/ RenderConversation(convs[i], FALSE).thrown
    THEN Throw
    ELSE Return([period |-> periodKey,
                 count |-> Len(convs),
                 sections |-> [i \in 1..Len(convs) |-> RenderConversation(convs[i], FALSE).v]])

\* the prefix of the file names
FilePrefix(source) ==
    IF source = SourceChatGPT THEN lit.chatgpt
    ELSE IF source = SourceGemini THEN ToLowerCase(lit.Gemini)
    ELSE lit.ai_chat

MdFile(filename, content) == [filename |-> filename, content |-> content]

\* the per_chat case: [thrown, v], v the files pushed
RECURSIVE PerChatFiles(_, _, _, _, _)
PerChatFiles(convs, index, prefix, zone, files) ==
    IF index = Len(convs) THEN Return(files)
    ELSE With(generateFilename(convs[index + 1], index, prefix, zone), LAMBDA filename :
         With(conversationToMarkdown(convs[index + 1]), LAMBDA content :
             IF filename.thrown \/ content.thrown THEN Throw
             ELSE PerChatFiles(convs, index + 1, prefix, zone,
                               Append(files, MdFile(filename.v \o lit.dot_md, content.v)))))

\* the per_month and per_year cases
GroupFiles(groups, prefix) ==
    IF \E i \in 1..Len(groups) :
           multiConversationsToMarkdown(groups[i].convs, groups[i].key).thrown
    THEN Throw
    ELSE Return([i \in 1..Len(groups) |->
                    MdFile(prefix \o <<"_">> \o groups[i].key \o lit.dot_md,
                           multiConversationsToMarkdown(groups[i].convs, groups[i].key).v)])

\* generateMarkdownFiles(): [thrown, v], v the files returned
generateMarkdownFiles(type, convs, source, now, zone) ==
    CASE type = "per_chat" -> PerChatFiles(convs, 0, FilePrefix(source), zone, <<>>)
      [] type = "per_month" -> GroupFiles(groupByMonth(convs, now, zone), FilePrefix(source))
      [] type = "per_year" -> GroupFiles(groupByYear(convs, now, zone), FilePrefix(source))

\* zip.file(file.filename, file.content) for every file: the entries of the
\* archive, a later file taking the place of an earlier one of its name
RECURSIVE ZipEntries(_, _)
ZipEntries(files, entries) ==
    IF Len(files) = 0 THEN entries
    ELSE ZipEntries(Tail(files),
                    IF \E i \in 1..Len(entries) : entries[i].filename = Head(files).filename
                    THEN [i \in 1..Len(entries) |->
                             IF entries[i].filename = Head(files).filename
                             THEN Head(files) ELSE entries[i]]
                    ELSE Append(entries, Head(files)))

(* ------------------------------------------------------------------ *)
(* State                                                                *)
(* ------------------------------------------------------------------ *)

VARIABLES
    \* one call of parseTimestamp
    tsValue,        \* the argument
    tsResult,       \* the value returned
    tsPc,           \* "idle", "call" or "done"
    \* one call of parseMapping, its loop taken one iteration at a time
    pmMapping,      \* the argument mapping
    pmCurrentNode,  \* the argument currentNode
    pmPc,           \* "idle", "enter", "walk", "sort", "done" or "threw"
    pmCurrent,      \* current
    pmSeen,         \* seen
    pmChain,        \* chain
    pmVisited,      \* the values of current the loop body ran on, in order
    pmMessages,     \* the value returned
    \* the component (class AIChatConverter) and its page
    fileName,       \* this.fileName
    jsonData,       \* this.jsonData
    conversations,  \* this.conversations
    detectedSource, \* this.detectedSource
    hasFile,        \* dropZone carries the class has-file
    dropText,       \* the text of the drop zone
    totalConversations, \* the text of the statistics
    totalMessages,
    outputFiles,
    sections,       \* the sections that carry the class visible
    convertBtnDisabled, \* convertBtn.disabled
    alerts,         \* the messages showError has shown, in order
    exportType,     \* this.exportType
    resultText,     \* the number of files the text of the result names
    converting,     \* the calls of convert() that await, each with its files
    exported,       \* what the last step of a call of convert() came to
    \* the environment
    inbox,          \* the files the user is still to drop, in order
    reading,        \* the calls of processFile that await file.text()
    finished,       \* the call of processFile that returned in the last step
    utcOffset,      \* the minutes the local time of the browser is ahead of UTC
    \* history
    lastParsed      \* what the last call of parseConversations that returned gave

tsVars == <<tsValue, tsResult, tsPc>>
pmVars == <<pmMapping, pmCurrentNode, pmPc, pmCurrent, pmSeen, pmChain, pmVisited, pmMessages>>
pageVars == <<hasFile, dropText, totalConversations, totalMessages, outputFiles,
              sections, convertBtnDisabled>>
convertVars == <<exportType, resultText, converting, exported, utcOffset>>
appVars == <<fileName, jsonData, conversations, detectedSource, pageVars, alerts,
             inbox, reading, finished, convertVars, lastParsed>>
vars == <<tsVars, pmVars, appVars>>

\* no call of processFile has returned in the last step
None == [outcome |-> "none"]

\* no call of convert() has taken its last step
NotExported == [outcome |-> "none"]

\* the text of the drop zone: the prompt, or the number of conversations found
\* and the source (nothing for the source 'AI')
PromptText == <<"prompt">>
DetectedText(count, source) == <<"detected", count, source>>

\* the messages of showError
SelectJsonFile == "select a JSON file"
ParseFailed == "JSON parse failed"

\* The component after its constructor and after reset(); the page is taken
\* to be as reset() leaves it, with nothing written to the statistics.
AppIdle ==
    /\ fileName = Undefined /\ jsonData = Null /\ conversations = <<>>
    /\ detectedSource = SourceAI
    /\ hasFile = FALSE /\ dropText = PromptText
    /\ totalConversations = 0 /\ totalMessages = 0 /\ outputFiles = 0
    /\ sections = {} /\ convertBtnDisabled = TRUE
    /\ alerts = <<>> /\ inbox = <<>> /\ reading = <<>> /\ finished = None
    /\ exportType = "per_chat" /\ resultText = 0 /\ converting = <<>>
    /\ exported = NotExported /\ utcOffset = 0 /\ lastParsed = <<>>

TsIdle == tsValue = Undefined /\ tsResult = Undefined /\ tsPc = "idle"
PmIdle ==
    /\ pmMapping = Undefined /\ pmCurrentNode = Undefined /\ pmPc = "idle"
    /\ pmCurrent = Undefined /\ pmSeen = {} /\ pmChain = <<>>
    /\ pmVisited = <<>> /\ pmMessages = <<>>

(* ------------------------------------------------------------------ *)
(* parseTimestamp applied to sample values                              *)
(* ------------------------------------------------------------------ *)

TsNumbers ==
    {Num(neg, a, b, c) : neg \in BOOLEAN, a \in {0, 1, 8641},
                         b \in {0, 1700, 9999, 10000, 700000}, c \in {0, 1, 999999}}
        \ {Num(TRUE, 0, 0, 0)}

TsInputs ==
    TsNumbers \cup
    { Undefined, Null, Bool(TRUE), Bool(FALSE), Str(<<>>), Str(Iso20240101),
      Str(Iso20240115), Str(NotADate), Str(<<" ">>), Obj(<<>>), Arr(<<>>),
      DateOf(Num(FALSE, 1, 704067, 200000)), DateOf(Small(0)), InvalidDate }

TsInit == tsValue \in TsInputs /\ tsResult = Undefined /\ tsPc = "call" /\ PmIdle /\ AppIdle

TsCall ==
    /\ tsPc = "call"
    /\ tsResult' = parseTimestamp(tsValue)
    /\ tsPc' = "done"
    /\ UNCHANGED <<tsValue, pmVars, appVars>>

SpecTimestamp == TsInit /\ [][TsCall]_vars

(* ------------------------------------------------------------------ *)
(* parseMapping applied to sample mappings                              *)
(* ------------------------------------------------------------------ *)

\* the number of nodes of a sample mapping
MaxNodes == 3

NodeId(i) == <<"n", DigitChars[i + 1]>>
NodeText(i) == <<"m", DigitChars[i + 1]>>
DanglingId == <<"z", "z">>

\* What a sample node holds: a message of the role with one text part; no
\* message; a user message whose only part is blank; a user message whose parts
\* is a string; a message of the role model; a message with a text and no
\* author.  Node i of a sample mapping gets the kind at i + shift.
NodeKinds == <<"user", "assistant", "user", "system", "none", "blank", "badparts", "model",
               "noauthor">>

KindAt(shift, i) == NodeKinds[((shift + i - 1) % Len(NodeKinds)) + 1]

SampleMessage(kind, i) ==
    LET author(role) == P(lit.author, Obj(<<P(lit.role, Str(role))>>))
        time == P(lit.create_time, Num(FALSE, 0, 1700, 10 - i))
        content(parts) == P(lit.content, Obj(<<P(lit.content_type, Str(lit.text)), P(lit.parts, parts)>>))
        text == Arr(<<Str(NodeText(i))>>)
    IN  CASE kind = "user" -> Obj(<<author(lit.user), time, content(text)>>)
          [] kind = "assistant" -> Obj(<<author(lit.assistant), content(text)>>)
          [] kind = "system" -> Obj(<<author(lit.system), time, content(text)>>)
          [] kind = "blank" -> Obj(<<author(lit.user), time, content(Arr(<<Str(<<" ">>)>>))>>)
          [] kind = "badparts" -> Obj(<<author(lit.user), time, content(Str(NodeText(i)))>>)
          [] kind = "noauthor" -> Obj(<<time, content(text)>>)
          [] kind = "model" -> Obj(<<author(lit.model), content(text)>>)
          [] OTHER -> Null

SampleParents == {Null, Str(DanglingId)} \cup {Str(NodeId(i)) : i \in 1..MaxNodes}

SampleMapping(parents, shift) ==
    Obj([i \in 1..MaxNodes |->
            P(NodeId(i), Obj(<<P(lit.id, Str(NodeId(i))),
                               P(lit.message, SampleMessage(KindAt(shift, i), i)),
                               P(lit.parent, parents[i])>>))])

SampleMappings ==
    {SampleMapping(parents, shift) :
        parents \in [1..MaxNodes -> SampleParents], shift \in 0..(Len(NodeKinds) - 1)}

PmInit ==
    /\ pmMapping \in SampleMappings
    /\ pmCurrentNode \in SampleParents
    /\ pmPc = "enter"
    /\ pmCurrent = Undefined /\ pmSeen = {} /\ pmChain = <<>>
    /\ pmVisited = <<>> /\ pmMessages = <<>>
    /\ TsIdle /\ AppIdle

\* the test that chooses the mode, and the initialisation of the walk
PmEnter ==
    /\ pmPc = "enter"
    /\ IF LeafMode(pmMapping, pmCurrentNode)
       THEN pmPc' = "walk" /\ pmCurrent' = pmCurrentNode
       ELSE pmPc' = "sort" /\ pmCurrent' = pmCurrent
    /\ UNCHANGED <<pmMapping, pmCurrentNode, pmSeen, pmChain, pmVisited, pmMessages, tsVars, appVars>>

\* one iteration of the while loop
PmIterate ==
    /\ pmPc = "walk"
    /\ ChainGuard(pmMapping, pmCurrent, pmSeen)
    /\ LET st == ChainStep(pmMapping, [current |-> pmCurrent, seen |-> pmSeen,
                                       chain |-> pmChain, thrown |-> FALSE])
       IN  /\ pmCurrent' = st.current
           /\ pmSeen' = st.seen
           /\ pmChain' = st.chain
           /\ pmPc' = IF st.thrown THEN "threw" ELSE "walk"
    /\ pmVisited' = Append(pmVisited, pmCurrent)
    /\ UNCHANGED <<pmMapping, pmCurrentNode, pmMessages, tsVars, appVars>>

\* the loop ends: reverse and return
PmReturnChain ==
    /\ pmPc = "walk"
    /\ ~ChainGuard(pmMapping, pmCurrent, pmSeen)
    /\ pmMessages' = ChainResult(pmChain)
    /\ pmPc' = "done"
    /\ UNCHANGED <<pmMapping, pmCurrentNode, pmCurrent, pmSeen, pmChain, pmVisited, tsVars, appVars>>

\* the fallback sort mode, from Object.keys to the return
PmFallback ==
    /\ pmPc = "sort"
    /\ LET r == FallbackEach(SortedNodes(pmMapping), <<>>)
       IN  /\ pmMessages' = r.messages
           /\ pmPc' = IF r.thrown THEN "threw" ELSE "done"
    /\ UNCHANGED <<pmMapping, pmCurrentNode, pmCurrent, pmSeen, pmChain, pmVisited, tsVars, appVars>>

PmNext == PmEnter \/ PmIterate \/ PmReturnChain \/ PmFallback

SpecMapping == PmInit /\ [][PmNext]_vars

(* ------------------------------------------------------------------ *)
(* The export files the model drops on the page                         *)
(* ------------------------------------------------------------------ *)

\* the largest number of entries of a sample activity array, of records of a
\* sample conversation array, and of files dropped one after another
MaxActivities == 3
MaxConvs == 2
MaxDrops == 2

Field(k, t) == P(k, Str(t))

\* a raw message { role, content }
Turn(role, content) == Obj(<<Field(lit.role, role), Field(lit.content, content)>>)

\* the texts of the sample values
txt ==
    [ hi |-> <<"h", "i">>,
      yo |-> <<"y", "o">>,
      sys |-> <<"s", "y", "s">>,
      padded |-> <<" ", " ", "q", " ", " ">>,
      blank |-> <<" ">>,
      data |-> <<"d", "a", "t", "a">>,
      chat_list |-> <<"c", "h", "a", "t", "_", "l", "i", "s", "t">>,
      items |-> <<"i", "t", "e", "m", "s">>,
      title_a |-> <<"a">>,
      title_b |-> <<"b">>,
      id_x |-> <<"x">>,
      conversation_2 |-> lit.conversation_prefix \o <<"2">>,
      gemini_apps |-> lit.Gemini \o <<" ", "A", "p", "p", "s">>,
      bard |-> <<"B", "a", "r", "d">>,
      html_hello |->
          <<"<", "p", ">", "H", "i", "<", "b", "r", ">", "y", "o", "u", "<", "/", "p", ">">>,
      html_amp |->
          <<"<", "h", "2", ">", "A", " ", "&", "a", "m", "p", ";", " ", "B", "<", "/", "h", "2", ">", "<", "l", "i", ">", "c", "<", "/", "l", "i", ">">>,
      html_empty |-> <<"<", "b", "r", ">", "<", "h", "r", " ", "x", ">">>,
      asked |-> <<"A", "s", "k", "e", "d">>,
      long |-> [i \in 1..(TitleLength + 1) |-> "x"] ]

\* Entries of a Gemini activity export: a prompt with its answer; a title
\* without the prefix, no answer and a time that is no date; a prompt that is
\* blank after the prefix with an answer that is markup only (no message).
ActivitySamples ==
    << Obj(<<Field(lit.header, txt.gemini_apps),
             Field(lit.title, lit.sent_message_prefix \o <<" ">> \o txt.hi),
             Field(lit.time, Iso20240101),
             P(lit.safeHtmlItem, Arr(<<Obj(<<Field(lit.html, txt.html_hello)>>)>>))>>),
       Obj(<<Field(lit.header, txt.gemini_apps), Field(lit.title, txt.asked),
             Field(lit.time, NotADate)>>),
       Obj(<<Field(lit.header, txt.gemini_apps),
             Field(lit.title, lit.sent_message_prefix \o <<" ">>),
             P(lit.safeHtmlItem, Arr(<<Obj(<<Field(lit.html, txt.html_empty)>>)>>))>>) >>

SeqsUpTo(samples, n) ==
    UNION {{[i \in 1..k |-> samples[f[i]]] : f \in [1..k -> 1..Len(samples)]} : k \in 1..n}

ActivityArrays == {Arr(a) : a \in SeqsUpTo(ActivitySamples, MaxActivities)}

\* Activity arrays with other entries: an answer only (alone and before a good
\* entry), a blank title, a long title, a title that is a number (behind and
\* before a good entry), a null entry, a null item, an html that is a number, a
\* header that is an array, a number, a mapping beside the header, a header
\* that does not name Gemini.
ActivityOddities ==
    LET good == ActivitySamples[1]
        head == Field(lit.header, txt.gemini_apps)
        answer == Obj(<<head, Field(lit.time, Iso20240115),
                        P(lit.safeHtmlItem, Arr(<<Obj(<<Field(lit.html, txt.html_amp)>>)>>))>>)
    IN  { Arr(<<answer>>), Arr(<<answer, good>>),
          Arr(<<Obj(<<head, Field(lit.title, txt.blank)>>)>>),
          Arr(<<Obj(<<head, Field(lit.title, txt.long)>>)>>),
          Arr(<<good, Obj(<<P(lit.title, Small(5))>>)>>),
          Arr(<<Obj(<<head, P(lit.title, Small(5))>>), good>>),
          Arr(<<good, Null>>),
          Arr(<<Obj(<<head, P(lit.safeHtmlItem, Arr(<<Null>>))>>)>>),
          Arr(<<Obj(<<head, P(lit.safeHtmlItem, Arr(<<Obj(<<P(lit.html, Small(5))>>)>>))>>)>>),
          Arr(<<Obj(<<P(lit.header, Arr(<<Str(lit.Gemini)>>)), Field(lit.title, txt.asked)>>)>>),
          Arr(<<Obj(<<P(lit.header, Small(5))>>)>>),
          Arr(<<Obj(<<head, P(lit.mapping, Obj(<<>>)), Field(lit.title, txt.asked)>>)>>),
          Arr(<<Obj(<<Field(lit.header, txt.bard), Field(lit.title, txt.asked)>>)>>) }

\* a mapping whose nodes form one chain n1 <- n2 <- ..., and the same nodes
\* with other messages
ChainParents == [i \in 1..MaxNodes |-> IF i = 1 THEN Null ELSE Str(NodeId(i - 1))]
ChainMapping == SampleMapping(ChainParents, 0)
SystemMapping == SampleMapping(ChainParents, 3)

\* Records of a conversation array: an id, a title and two turns; a system
\* turn and no id; a title and an id of the synthesized form; a mapping with
\* its current_node; turns named by author and text, with a time in seconds.
ConvSamples ==
    << Obj(<<Field(lit.id, txt.id_x), Field(lit.title, txt.title_a),
             P(lit.messages, Arr(<<Turn(lit.user, txt.hi), Turn(lit.model, txt.yo)>>))>>),
       Obj(<<Field(lit.title, txt.title_b), P(lit.messages, Arr(<<Turn(lit.system, txt.sys)>>))>>),
       Obj(<<Field(lit.id, txt.conversation_2), Field(lit.title, txt.title_a)>>),
       Obj(<<Field(lit.title, txt.title_b), P(lit.mapping, ChainMapping),
             Field(lit.current_node, NodeId(MaxNodes))>>),
       Obj(<<P(lit.messages, Arr(<<Obj(<<Field(lit.author, lit.human), Field(lit.text, txt.padded)>>)>>)),
             P(lit.create_time, Num(FALSE, 0, 1700, 0))>>) >>

ConvArrays == {Arr(a) : a \in SeqsUpTo(ConvSamples, MaxConvs)}

\* Values of the other shapes: scalars and null; arrays with a first element
\* that is no record; objects with conversations, chats or history, messages
\* or content, contents (fields of the expected and of other types, and two
\* shapes at once); objects only the generic scan reads.
OtherDocuments ==
    LET turns == Arr(<<Turn(lit.user, txt.hi), Turn(lit.tool, txt.yo)>>)
        titled == Obj(<<Field(lit.id, txt.id_x), Field(lit.title, txt.title_a)>>)
        plain == Obj(<<Field(lit.title, txt.title_b), P(lit.messages, turns)>>)
        part(t) == Obj(<<Field(lit.text, t)>>)
        content(role, parts) == Obj(<<Field(lit.role, role), P(lit.parts, Arr(parts))>>)
    IN  { Null, Bool(TRUE), Small(5), Str(txt.hi), Arr(<<>>), Obj(<<>>),
          Arr(<<Null>>), Arr(<<Small(5)>>), Arr(<<ConvSamples[1], Null>>),
          Arr(<<Obj(<<>>)>>), Arr(<<Obj(<<P(lit.mapping, SystemMapping)>>)>>),
          Arr(<<ConvSamples[2], Obj(<<P(lit.mapping, SystemMapping)>>)>>),
          Arr(<<Obj(<<Field(lit.title, txt.title_a), Field(lit.messages, txt.hi)>>)>>),
          Arr(<<Obj(<<Field(lit.title, txt.title_a), Field(lit.messages, txt.hi),
                      P(lit.history, turns)>>)>>),
          Arr(<<Obj(<<Field(lit.title, txt.title_a), P(lit.messages, turns),
                      P(lit.mapping, ChainMapping), Field(lit.current_node, NodeId(MaxNodes))>>)>>),
          Obj(<<P(lit.conversations, Arr(<<ConvSamples[1], ConvSamples[1]>>))>>),
          Obj(<<P(lit.conversations, Arr(<<ConvSamples[4]>>))>>),
          Obj(<<Field(lit.conversations, txt.hi)>>),
          Obj(<<P(lit.conversations, Arr(<<plain>>)), P(lit.chats, Arr(<<plain>>))>>),
          Obj(<<P(lit.chats, Arr(<<plain, titled, plain>>))>>),
          Obj(<<P(lit.history, Arr(<<Obj(<<P(lit.turns, turns)>>)>>))>>),
          Obj(<<P(lit.chats, Small(5))>>),
          Obj(<<P(lit.chats, Arr(<<Null>>))>>),
          Obj(<<P(lit.history, Arr(<<plain>>)), P(lit.messages, turns)>>),
          Obj(<<Field(lit.title, txt.title_a), P(lit.messages, turns)>>),
          Obj(<<P(lit.content, Arr(<<Turn(lit.user, txt.blank), Turn(lit.bot, txt.padded)>>))>>),
          Obj(<<Field(lit.messages, txt.hi)>>),
          Obj(<<Field(lit.content, txt.hi)>>),
          Obj(<<P(lit.messages, Arr(<<Obj(<<P(lit.role, Small(5)), Field(lit.content, txt.hi)>>)>>))>>),
          Obj(<<P(lit.messages, Arr(<<Obj(<<Field(lit.role, lit.user), P(lit.content, Small(5))>>)>>))>>),
          Obj(<<P(lit.messages, Arr(<<Obj(<<Field(lit.role, lit.user), Field(lit.parts, txt.hi)>>)>>))>>),
          Obj(<<P(lit.messages, Arr(<<Obj(<<Field(lit.role, lit.user),
                                          P(lit.parts, Arr(<<Null>>))>>)>>))>>),
          Obj(<<P(lit.messages, Arr(<<Obj(<<Field(lit.role, lit.user), P(lit.content, Obj(<<>>)),
                                          Field(lit.text, txt.hi)>>)>>))>>),
          Obj(<<P(lit.messages, Arr(<<Null, Obj(<<Field(lit.sender, lit.ai),
                                                P(lit.message, Obj(<<Field(lit.text, txt.yo)>>))>>)>>))>>),
          Obj(<<P(lit.messages, turns), P(lit.contents, Arr(<<content(lit.user, <<part(txt.hi)>>)>>))>>),
          Obj(<<P(lit.contents, Arr(<<content(lit.user, <<part(txt.hi), part(<<>>)>>),
                                    content(lit.model, <<part(txt.yo)>>)>>))>>),
          Obj(<<P(lit.contents, Arr(<<content(lit.user, <<part(txt.blank)>>)>>))>>),
          Obj(<<P(lit.contents, Arr(<<content(lit.tool, <<part(txt.padded)>>)>>))>>),
          Obj(<<P(lit.contents, Arr(<<Obj(<<P(lit.parts, Arr(<<part(txt.hi)>>))>>)>>))>>),
          Obj(<<P(lit.contents, Arr(<<Obj(<<Field(lit.role, lit.user), P(lit.parts, Arr(<<Null>>))>>)>>))>>),
          Obj(<<P(lit.contents, Small(5))>>),
          Obj(<<P(txt.data, Obj(<<P(txt.chat_list, Arr(<<titled>>))>>))>>),
          Obj(<<P(txt.data, Obj(<<P(txt.chat_list, Arr(<<plain>>))>>))>>),
          Obj(<<P(txt.data, Arr(<<plain, ConvSamples[2]>>)), P(txt.items, Arr(<<ConvSamples[2]>>))>>),
          Obj(<<P(txt.data, Obj(<<P(lit.message, Arr(<<Null>>))>>))>>),
          Obj(<<P(txt.data, Obj(<<Field(txt.items, txt.hi), P(lit.message, Small(5))>>))>>) }

Documents == ActivityArrays \cup ActivityOddities \cup ConvArrays \cup OtherDocuments

\* the text of a file: text that JSON.parse reads as a value, or text it rejects
JsonText(value) == [valid |-> TRUE, json |-> value]
BadText == [valid |-> FALSE, json |-> Undefined]

\* JSON.parse(text)
JSONparse(text) == IF text.valid THEN Return(text.json) ELSE Throw

File(name, text) == [name |-> name, text |-> text]

\* the names of the sample files
fname ==
    [ conversations_json |-> lit.conversations_json,
      gemini_export_json |->
          <<"g", "e", "m", "i", "n", "i", "_", "e", "x", "p", "o", "r", "t", ".", "j", "s", "o", "n">>,
      export_json |-> <<"e", "x", "p", "o", "r", "t", ".", "j", "s", "o", "n">>,
      MyActivity_json |->
          <<"M", "y", "A", "c", "t", "i", "v", "i", "t", "y", ".", "j", "s", "o", "n">>,
      chatgpt_txt |-> <<"c", "h", "a", "t", "g", "p", "t", ".", "t", "x", "t">> ]

FileNames == {fname.conversations_json, fname.gemini_export_json, fname.export_json,
              fname.MyActivity_json, fname.chatgpt_txt}

Files == {File(name, JsonText(doc)) : name \in FileNames, doc \in Documents}
            \cup {File(name, BadText) : name \in FileNames}

\* the files of the runs that overlap: a plain conversation array under a
\* Gemini name, an activity array under a ChatGPT name, a contents object and
\* a text that is no JSON under a name of neither
OverlapFiles ==
    << File(fname.gemini_export_json, JsonText(Arr(<<ConvSamples[1]>>))),
       File(fname.conversations_json, JsonText(Arr(<<ActivitySamples[1]>>))),
       File(fname.export_json, JsonText(Obj(<<P(lit.contents,
            Arr(<<Obj(<<Field(lit.role, lit.model), P(lit.parts, Arr(<<Obj(<<Field(lit.text, txt.yo)>>)>>))>>)>>))>>))),
       File(fname.export_json, BadText) >>

\* what the user drops: one file of any kind, or some of the overlap files
Inboxes ==
    {<<f>> : f \in Files} \cup
    UNION {{[i \in 1..k |-> OverlapFiles[g[i]]] : g \in [1..k -> 1..Len(OverlapFiles)]} :
              k \in 2..MaxDrops}

\* a title of the shape of a UUID
UuidTitle ==
    <<"1", "2", "4", "d", "b", "2", "7", "7", "-", "2", "2", "c", "f", "-", "4", "9", "a", "e",
      "-", "b", "d", "3", "d", "-", "0", "0", "d", "6", "7", "e", "4", "d", "6", "e", "a", "5">>

\* Conversation arrays for the export: four records of which the first and the
\* third share a title and a month, the second has a title with spaces and an
\* earlier time, the third an update time only and the fourth neither a title
\* nor a time; and an empty record (which gives no conversation) before a
\* record without a title and a record with a UUID for its title.
DatedArray ==
    LET turns == Arr(<<Turn(lit.user, txt.hi), Turn(lit.model, txt.yo)>>)
    IN  Arr(<< Obj(<<Field(lit.title, txt.title_a), P(lit.messages, turns),
                     Field(lit.create_time, Iso20240115)>>),
               Obj(<<Field(lit.title, txt.padded), P(lit.messages, turns),
                     P(lit.create_time, Num(FALSE, 0, 1700, 0))>>),
               Obj(<<Field(lit.title, txt.title_a), P(lit.messages, turns),
                     Field(lit.update_time, Iso20240101)>>),
               Obj(<<P(lit.messages, turns)>>) >>)

DroppedArray ==
    LET turns == Arr(<<Turn(lit.user, txt.hi)>>)
    IN  Arr(<< Obj(<<>>),
               Obj(<<P(lit.messages, turns)>>),
               Obj(<<Field(lit.title, UuidTitle), P(lit.messages, turns),
                     Field(lit.create_time, Iso20240115)>>) >>)

\* what the user drops before exporting: one of the two arrays; an activity
\* with a time that is no date; a conversation array followed by an array that
\* the parse fails on at once or after two records, by a text that is no
\* JSON, or by an activity array
ExportInboxes ==
    { <<File(fname.export_json, JsonText(DatedArray))>>,
      <<File(fname.conversations_json, JsonText(DroppedArray))>>,
      <<File(fname.MyActivity_json, JsonText(Arr(<<ActivitySamples[2], ActivitySamples[1]>>)))>>,
      <<OverlapFiles[1], File(fname.export_json, JsonText(Arr(<<Null>>)))>>,
      <<OverlapFiles[1], File(fname.export_json, JsonText(Arr(<<ConvSamples[2], ConvSamples[1], Null>>)))>>,
      <<OverlapFiles[1], OverlapFiles[4]>>,
      <<OverlapFiles[1], OverlapFiles[2]>> }

\* the local times of the browser: UTC, and five hours behind it
Zones == {0, -300}

\* the readings of the clock
Clock == {DateOf(Num(FALSE, 1, 762041, 600000)), DateOf(Num(FALSE, 1, 762041, 600001))}

(* ------------------------------------------------------------------ *)
(* The component: processFile, updateUI, reset                          *)
(* ------------------------------------------------------------------ *)

\* the component after its constructor, in a browser whose local time is UTC
Constructed ==
    /\ fileName = Undefined /\ jsonData = Null /\ conversations = <<>>
    /\ detectedSource = SourceAI
    /\ hasFile = FALSE /\ dropText = PromptText
    /\ totalConversations = 0 /\ totalMessages = 0 /\ outputFiles = 0
    /\ sections = {} /\ convertBtnDisabled = TRUE
    /\ alerts = <<>> /\ reading = <<>> /\ finished = None
    /\ exportType = "per_chat" /\ resultText = 0 /\ converting = <<>>
    /\ exported = NotExported /\ lastParsed = <<>>
    /\ TsIdle /\ PmIdle

Init == inbox \in Inboxes /\ utcOffset = 0 /\ Constructed

\* conversations.reduce((sum, conv) => sum + conv.messages.length, 0)
RECURSIVE TotalMessages(_)
TotalMessages(convs) ==
    IF Len(convs) = 0 THEN 0 ELSE Len(Head(convs).messages) + TotalMessages(Tail(convs))

\* convertBtn.disabled = this.conversations.length === 0
ConvertDisabled(convs) == Len(convs) = 0

\* updateUI() on the conversations and the source the parse has left, with the
\* reading of the clock that updateOutputFileCount takes
updateUI(convs, source, now) ==
    /\ hasFile' = TRUE
    /\ dropText' = DetectedText(Len(convs), IF source # SourceAI THEN source ELSE "")
    /\ totalConversations' = Len(convs)
    /\ totalMessages' = TotalMessages(convs)
    /\ outputFiles' = OutputFileCount(exportType, convs, now, utcOffset)
    /\ sections' = sections \cup {"stats", "action"}
    /\ convertBtnDisabled' = ConvertDisabled(convs)

\* handleDrop / handleFileSelect -> processFile(file), up to await file.text():
\* a name that does not end in .json is refused; otherwise the name is stored
\* in the component and the file is read
ProcessFileStart ==
    /\ inbox # <<>>
    /\ inbox' = Tail(inbox)
    /\ finished' = None
    /\ IF ~EndsWith(Head(inbox).name, lit.dot_json)
       THEN /\ alerts' = Append(alerts, SelectJsonFile)
            /\ UNCHANGED <<fileName, reading>>
       ELSE /\ fileName' = Str(Head(inbox).name)
            /\ reading' = Append(reading, Head(inbox))
            /\ UNCHANGED alerts
    /\ UNCHANGED <<jsonData, conversations, detectedSource, pageVars, convertVars, lastParsed,
                   tsVars, pmVars>>

\* the run that resumes a call of processFile
Run(file, outcome, shape, created, updated) ==
    [outcome |-> outcome, file |-> file, shape |-> shape,
     created |-> created, updated |-> updated]

\* processFile(file) from the text on: JSON.parse, parseConversations, updateUI,
\* and the catch clause around them
ProcessFileResume(i, created, updated) ==
    LET file == reading[i]
        parsed == JSONparse(file.text)
    IN  /\ reading' = SubSeq(reading, 1, i - 1) \o SubSeq(reading, i + 1, Len(reading))
        /\ IF parsed.thrown
           THEN /\ alerts' = Append(alerts, ParseFailed)
                /\ finished' = Run(file, "no json", "none", created, updated)
                /\ UNCHANGED <<jsonData, conversations, detectedSource, pageVars, lastParsed>>
           ELSE \E r \in {parseConversations(fileName, parsed.v, created, updated)} :
                /\ jsonData' = parsed.v
                /\ conversations' = r.conversations
                /\ detectedSource' = r.detectedSource
                /\ finished' = Run(file, IF r.thrown THEN "threw" ELSE "parsed",
                                   r.shape, created, updated)
                /\ IF r.thrown
                   THEN /\ alerts' = Append(alerts, ParseFailed)
                        /\ UNCHANGED <<pageVars, lastParsed>>
                   ELSE /\ \E now \in Clock :
                              ~NumGT(updated, now)
                              /\ updateUI(r.conversations, r.detectedSource, now)
                        /\ lastParsed' = r.conversations
                        /\ UNCHANGED alerts
        /\ UNCHANGED <<fileName, inbox, convertVars, tsVars, pmVars>>

ProcessFileResumeAny ==
    \E i \in 1..Len(reading) : \E created, updated \in Clock :
        /\ ~NumGT(created, updated)
        /\ ProcessFileResume(i, created, updated)

\* reset(), the handler of the reset button
Reset ==
    /\ jsonData' = Null
    /\ conversations' = <<>>
    /\ hasFile' = FALSE
    /\ dropText' = PromptText
    /\ sections' = sections \ {"stats", "action", "result"}
    /\ convertBtnDisabled' = TRUE
    /\ finished' = None
    /\ UNCHANGED <<fileName, detectedSource, totalConversations, totalMessages, outputFiles,
                   alerts, inbox, reading, convertVars, lastParsed, tsVars, pmVars>>

Next == ProcessFileStart \/ ProcessFileResumeAny \/ Reset

Spec == Init /\ [][Next]_vars

(* ------------------------------------------------------------------ *)
(* The component with its export: the radio buttons and convert()       *)
(* ------------------------------------------------------------------ *)

ExportTypes == {"per_chat", "per_month", "per_year"}

\* the change handler of the export type radio buttons
SetExportType ==
    \E type \in ExportTypes \ {exportType} : \E now \in Clock :
        /\ exportType' = type
        /\ outputFiles' = OutputFileCount(type, conversations, now, utcOffset)
        /\ finished' = None
        /\ UNCHANGED <<fileName, jsonData, conversations, detectedSource, hasFile, dropText,
                       totalConversations, totalMessages, sections, convertBtnDisabled,
                       alerts, inbox, reading, resultText, converting, exported, utcOffset,
                       lastParsed, tsVars, pmVars>>

\* a click on the convert button (shown and enabled): convert() up to its first
\* await.  When generateMarkdownFiles throws, the call ends there.
ConvertStart ==
    /\ "action" \in sections /\ ~convertBtnDisabled
    /\ sections' = (sections \cup {"progress"}) \ {"action"}
    /\ finished' = None
    /\ \E now \in Clock :
          \E files \in {generateMarkdownFiles(exportType, conversations, detectedSource,
                                               now, utcOffset)} :
              IF files.thrown
              THEN exported' = [outcome |-> "threw"] /\ UNCHANGED converting
              ELSE /\ converting' = Append(converting, [files |-> files.v, saved |-> FALSE])
                   /\ exported' = NotExported
    /\ UNCHANGED <<fileName, jsonData, conversations, detectedSource, hasFile, dropText,
                   totalConversations, totalMessages, outputFiles, convertBtnDisabled,
                   alerts, inbox, reading, exportType, resultText, utcOffset, lastParsed,
                   tsVars, pmVars>>

\* convert() after the progress loop: one file is downloaded as it is, any other
\* number of files as a zip archive
ConvertDownload ==
    \E i \in 1..Len(converting) :
        /\ ~converting[i].saved
        /\ converting' = [converting EXCEPT ![i].saved = TRUE]
        /\ exported' = IF Len(converting[i].files) = 1
                        THEN [outcome |-> "file", file |-> converting[i].files[1]]
                        ELSE [outcome |-> "zip",
                              entries |-> ZipEntries(converting[i].files, <<>>)]
        /\ finished' = None
        /\ UNCHANGED <<fileName, jsonData, conversations, detectedSource, pageVars, alerts,
                       inbox, reading, exportType, resultText, utcOffset, lastParsed,
                       tsVars, pmVars>>

\* convert() after its last sleep
ConvertEnd ==
    /\ \E i \in 1..Len(converting) :
          /\ converting[i].saved
          /\ converting' = SubSeq(converting, 1, i - 1) \o SubSeq(converting, i + 1, Len(converting))
          /\ resultText' = Len(converting[i].files)
    /\ sections' = (sections \ {"progress"}) \cup {"result"}
    /\ finished' = None
    /\ UNCHANGED <<fileName, jsonData, conversations, detectedSource, hasFile, dropText,
                   totalConversations, totalMessages, outputFiles, convertBtnDisabled,
                   alerts, inbox, reading, exportType, exported, utcOffset, lastParsed,
                   tsVars, pmVars>>

ExportNext ==
    \/ ProcessFileStart \/ ProcessFileResumeAny \/ Reset
    \/ SetExportType \/ ConvertStart \/ ConvertDownload \/ ConvertEnd

ExportInit == inbox \in ExportInboxes /\ utcOffset \in Zones /\ Constructed

SpecExport == ExportInit /\ [][ExportNext]_vars

(* ------------------------------------------------------------------ *)
(* Properties of parseMapping (SpecMapping)                             *)
(* ------------------------------------------------------------------ *)

NoRepeat(q) == \A i, j \in 1..Len(q) : i # j => q[i] # q[j]

RECURSIVE PathUp(_, _)
PathUp(v, fuel) ==
    IF fuel = 0 \/ ~Truthy(v) \/ ~HasKey(pmMapping.o, PropertyKey(v)) THEN <<>>
    ELSE <<PropertyKey(v)>> \o PathUp(Get(Get(pmMapping, PropertyKey(v)), lit.parent), fuel - 1)

LeafPath == PathUp(pmCurrentNode, Len(pmMapping.o) + 1)

\* the role and the text of a sample node (its message's single part)
RoleOfNode(id) == Get(Get(Get(Get(pmMapping, id), lit.message), lit.author), lit.role)
TextOfNode(id) == Trim(Get(Get(Get(Get(pmMapping, id), lit.message), lit.content), lit.parts).a[1].s)

QualifiesNode(id) ==
    /\ Truthy(Get(Get(pmMapping, id), lit.message))
    /\ RoleOfNode(id) \in {Str(lit.user), Str(lit.assistant)}
    /\ Get(Get(Get(Get(pmMapping, id), lit.message), lit.content), lit.parts).t = "arr"
    /\ Len(TextOfNode(id)) > 0

\* C2: on a linear parent chain with current_node at its tail, parseMapping
\* returns exactly the chain's nodes that have role user or assistant and a
\* non-empty text, each once, from the root to the leaf; no other node appears.
C2_ChainRootToLeaf ==
    (pmPc = "done" /\ LeafMode(pmMapping, pmCurrentNode) /\ NoRepeat(LeafPath)) =>
        LET expected == SelectSeq(Reverse(LeafPath), QualifiesNode)
        IN  /\ Len(pmMessages) = Len(expected)
            /\ \A i \in 1..Len(expected) :
                  /\ pmMessages[i].content = Str(TextOfNode(expected[i]))
                  /\ pmMessages[i].role = RoleOfNode(expected[i])

\* C2 witness: a linear chain of two or more nodes, two or more of them
\* returned, beside a node off the chain that has a user text as well.
C2_ChainWithBranch ==
    /\ pmPc = "done" /\ LeafMode(pmMapping, pmCurrentNode) /\ NoRepeat(LeafPath)
    /\ Len(LeafPath) >= 2
    /\ Len(pmMessages) >= 2
    /\ \E i \in 1..Len(pmMapping.o) :
          /\ \A j \in 1..Len(LeafPath) : LeafPath[j] # pmMapping.o[i].k
          /\ QualifiesNode(pmMapping.o[i].k)

\* the message of the i-th node of the mapping, and its raw create_time with a
\* missing one counted as 0
MessageAt(i) == Get(pmMapping.o[i].v, lit.message)
RawTimeAt(i) ==
    IF Get(MessageAt(i), lit.create_time).t = "num" THEN Get(MessageAt(i), lit.create_time)
    ELSE Small(0)

\* the i-th node has a message with a text that is not empty
HasTextAt(i) ==
    /\ Truthy(MessageAt(i))
    /\ Get(Get(MessageAt(i), lit.content), lit.parts).t = "arr"
    /\ Len(TextOfNode(pmMapping.o[i].k)) > 0

\* the nodes the fallback mode returns: the message has an author, a text, and
\* a role (user when the author names none) other than system
SortModeNodes ==
    {i \in 1..Len(pmMapping.o) :
        /\ HasTextAt(i)
        /\ Truthy(Get(MessageAt(i), lit.author))
        /\ RoleOfNode(pmMapping.o[i].k) # Str(lit.system)}

\* the same without the condition on the author
SortModeNodesAsStated ==
    {i \in 1..Len(pmMapping.o) :
        HasTextAt(i) /\ RoleOfNode(pmMapping.o[i].k) # Str(lit.system)}

\* the place of node i among the nodes of a set: after those of an earlier raw
\* create_time, and after those of the same time that come before it in the
\* mapping
PlaceIn(nodes, i) ==
    1 + Cardinality({j \in nodes : \/ NumGT(RawTimeAt(i), RawTimeAt(j))
                                    \/ (RawTimeAt(i) = RawTimeAt(j) /\ j < i)})

TsRule ==
    /\ tsResult.t \in {"null", "date"}
    /\ (tsValue.t = "num" /\ ~IsZero(tsValue)) =>
          tsResult = NewDateNum(IF NumGT(tsValue, Num(FALSE, 0, 9999, 999999))
                                THEN tsValue ELSE Mul1000(tsValue))
    /\ tsValue = Num(FALSE, 0, 1700, 0) => tsResult = DateOf(Num(FALSE, 1, 700000, 0))
    /\ tsValue = Num(FALSE, 1, 700000, 0) => tsResult = DateOf(Num(FALSE, 1, 700000, 0))
    /\ tsValue.t = "date" => tsResult = tsValue
    /\ (tsValue.t \in {"undefined", "null"} \/ tsValue = Str(<<>>)) => tsResult = Null
    /\ (tsValue.t = "str" /\ ~NewDateStr(tsValue.s).valid) => tsResult = Null

\* C9 as stated: a number above 9,999,999,999 is epoch milliseconds and every
\* other number epoch seconds; an absolute time passes through; absent, null,
\* empty and unparseable strings give unknown; no error is raised.
C9_AsStated ==
    tsPc = "done" =>
        /\ TsRule
        /\ (tsValue.t = "num" /\ IsZero(tsValue)) => tsResult = DateOf(Small(0))

\* C9 amended: as C9, for every number other than 0; the number 0 gives unknown.
C9_ScaleRule ==
    tsPc = "done" =>
        /\ TsRule
        /\ (tsValue.t = "num" /\ IsZero(tsValue)) => tsResult = Null

\* C9 witness: 9,999,999,999, the largest number read as seconds.
C9_LargestSeconds ==
    /\ tsPc = "done"
    /\ tsValue = Num(FALSE, 0, 9999, 999999)
    /\ tsResult = DateOf(Num(FALSE, 9, 999999, 999000))

(* ------------------------------------------------------------------ *)
(* Properties of the component (Spec)                                   *)
(* ------------------------------------------------------------------ *)

\* a call of processFile has just returned, after parseConversations ran
RanParse == finished.outcome \in {"parsed", "threw"}
\* ... and parseConversations returned
Parsed == finished.outcome = "parsed"

\* the messages of all the conversations of the component
AllMessages ==
    UNION {{conversations[i].messages[j] : j \in 1..Len(conversations[i].messages)} :
              i \in 1..Len(conversations)}

\* C3 as stated: whatever JSON value the text of the file denotes, and
\* whatever its name, parseConversations returns; a call of processFile
\* signals an error only when the text is no JSON.
C3_ParseTotal ==
    (finished.outcome # "none" /\ finished.file.text.valid) => finished.outcome = "parsed"

\* C4 as stated: when a call of processFile returns, detectedSource and
\* conversations are what parseConversations gives for the name and the text
\* of the file of that call, whatever other calls have started meanwhile.
C4_RunsIsolated ==
    RanParse =>
        LET alone == parseConversations(Str(finished.file.name), finished.file.text.json,
                                        finished.created, finished.updated)
        IN  /\ detectedSource = alone.detectedSource
            /\ conversations = alone.conversations

\* The content shapes in the order (a) .. (h) and what it takes to match each.
ShapeOrder == <<"a", "b", "c", "d", "e", "f", "g", "h">>

FirstElementHas(key) ==
    /\ jsonData.t = "arr" /\ Len(jsonData.a) > 0 /\ jsonData.a[1].t = "obj"
    /\ Truthy(Get(jsonData.a[1], key))

Matches(shape) ==
    CASE shape = "a" ->
            /\ FirstElementHas(lit.header)
            /\ LET header == Get(jsonData.a[1], lit.header)
               IN  \/ header.t = "str" /\ Includes(header.s, lit.Gemini)
                   \/ header.t = "arr" /\ \E i \in 1..Len(header.a) : header.a[i] = Str(lit.Gemini)
      [] shape = "b" -> FirstElementHas(lit.mapping)
      [] shape = "c" -> jsonData.t = "arr"
      [] shape = "d" -> Truthy(Get(jsonData, lit.conversations))
      [] shape = "e" -> Truthy(Get(jsonData, lit.chats)) \/ Truthy(Get(jsonData, lit.history))
      [] shape = "f" -> Truthy(Get(jsonData, lit.messages)) \/ Truthy(Get(jsonData, lit.content))
      [] shape = "g" -> Truthy(Get(jsonData, lit.contents))
      [] OTHER -> TRUE

FirstMatch ==
    ShapeOrder[CHOOSE i \in 1..Len(ShapeOrder) :
                  /\ Matches(ShapeOrder[i])
                  /\ \A j \in 1..(i - 1) : ~Matches(ShapeOrder[j])]

\* what the parser of a shape alone gives for jsonData
ParserOutput(shape) ==
    CASE shape = "a" -> parseGeminiActivityFormat(jsonData, <<>>).convs
      [] shape \in {"b", "c"} -> parseArrayFormat(jsonData, <<>>).convs
      [] shape = "d" -> parseArrayFormat(Get(jsonData, lit.conversations), <<>>).convs
      [] shape = "e" ->
            parseTakeoutFormat(Or(Get(jsonData, lit.chats), Get(jsonData, lit.history)), <<>>).convs
      [] shape = "f" -> parseSingleConversation(jsonData, <<>>).convs
      [] shape = "g" ->
            parseApiFormat(jsonData, finished.created, finished.updated, <<>>).convs
      [] OTHER -> parseGenericFormat(jsonData, <<>>).convs

\* C5: after parseConversations, whatever the file name, a value whose first
\* matching shape is (a), (e) or (g) is classified Gemini and one whose first
\* matching shape is (b) is classified ChatGPT; the branch taken is the first
\* shape in the order (a) .. (h) that the value matches, and the conversations
\* are those of that shape's parser alone.
C5_ContentCuesWin ==
    (RanParse /\ finished.shape # "throw") =>
        /\ finished.shape = FirstMatch
        /\ FirstMatch \in {"a", "e", "g"} => detectedSource = SourceGemini
        /\ FirstMatch = "b" => detectedSource = SourceChatGPT
        /\ conversations = ParserOutput(FirstMatch)

\* C5 witness: an activity array (shape a) in a file named conversations.json,
\* the ChatGPT pattern, is classified Gemini.
C5_GeminiUnderChatGPTName ==
    /\ Parsed /\ FirstMatch = "a"
    /\ fileName = Str(fname.conversations_json)
    /\ finished.file.name = fname.conversations_json
    /\ detectSourceFromFileName(fileName, SourceAI) = SourceChatGPT
    /\ detectedSource = SourceGemini
    /\ Len(conversations) > 0

\* C6 as stated: every message of every conversation has the role user or
\* assistant.
C6_RolesUserOrAssistant ==
    Parsed => \A m \in AllMessages : m.role \in {Str(lit.user), Str(lit.assistant)}

\* C7 as stated: every message of every conversation has a content that is
\* not empty and equals its own trimmed form.
C7_ContentTrimmed ==
    Parsed => \A m \in AllMessages :
                 /\ m.content.t = "str"
                 /\ Len(m.content.s) > 0
                 /\ Trim(m.content.s) = m.content.s

\* C8 as stated: the ids of the conversations are non-empty strings, no two
\* of them equal.
C8_IdsDistinct ==
    Parsed =>
        /\ \A i \in 1..Len(conversations) :
              conversations[i].id.t = "str" /\ Len(conversations[i].id.s) > 0
        /\ \A i, j \in 1..Len(conversations) :
              i # j => conversations[i].id # conversations[j].id

\* What an activity entry has to say: the text after the prefix, trimmed, or
\* the whole title; and the text of the first item's markup.
EntryUserText(entry) ==
    LET title == Get(entry, lit.title)
    IN  IF title.t # "str" THEN <<>>
        ELSE IF StartsWith(title.s, lit.sent_message_prefix)
             THEN Trim(SubSeq(title.s, Len(lit.sent_message_prefix) + 1, Len(title.s)))
        ELSE title.s

EntryAiText(entry) ==
    LET items == Get(entry, lit.safeHtmlItem)
    IN  IF items.t = "arr" /\ Len(items.a) > 0
        THEN Trim(stripHtml(Get(items.a[1], lit.html)).v.s) ELSE <<>>

EntryTime(entry) ==
    IF Truthy(Get(entry, lit.time)) THEN NewDate(Get(entry, lit.time)) ELSE Null

EntryMessages(entry) ==
    (IF EntryUserText(entry) # <<>>
     THEN <<Message(Str(lit.user), Str(EntryUserText(entry)), EntryTime(entry))>> ELSE <<>>)
    \o (IF EntryAiText(entry) # <<>>
        THEN <<Message(Str(lit.assistant), Str(EntryAiText(entry)), EntryTime(entry))>> ELSE <<>>)

\* what each entry of jsonData has to say: its time and its messages
EntriesExpected ==
    [i \in 1..Len(jsonData.a) |-> [time |-> EntryTime(jsonData.a[i]),
                                   messages |-> EntryMessages(jsonData.a[i])]]

\* C10: parseGeminiActivityFormat on an array of L entries emits one
\* conversation for each entry that yields a message and none for the others,
\* in the reverse of the input order; the conversation of the entry at 0-based
\* position i has the id gemini_activity_{L-i}, holds at most one user message
\* followed by at most one assistant message, and its createTime, its
\* updateTime and the timestamps of its messages are the time of the entry.
C10_ReverseOrderIds ==
    (Parsed /\ finished.shape = "a") =>
        \A expected \in {EntriesExpected} :
            LET L == Len(expected)
                yielding == {i \in 1..L : expected[i].messages # <<>>}
                place(i) == Cardinality({j \in yielding : j >= i})
            IN  /\ Len(conversations) = Cardinality(yielding)
                /\ \A i \in yielding :
                      LET c == conversations[place(i)]
                      IN  /\ c.id = Str(lit.gemini_activity_prefix \o NatToString(L - (i - 1)))
                          /\ c.messages = expected[i].messages
                          /\ c.createTime = expected[i].time
                          /\ c.updateTime = expected[i].time
                          /\ \A k \in 1..Len(c.messages) :
                                c.messages[k].timestamp = c.createTime
                /\ \A n \in 1..Len(conversations) :
                      [k \in 1..Len(conversations[n].messages) |->
                            conversations[n].messages[k].role]
                         \in {<<Str(lit.user)>>, <<Str(lit.assistant)>>,
                              <<Str(lit.user), Str(lit.assistant)>>}

\* C10 witness: an array of three different entries, the first one yielding no
\* message: two conversations, gemini_activity_1 (of the last entry) before
\* gemini_activity_2 (of the entry before it, with a user and an assistant
\* message); the markup-only entry, which would be gemini_activity_3, is omitted.
C10_ThreeEntries ==
    /\ Parsed /\ finished.shape = "a"
    /\ jsonData = Arr(<<ActivitySamples[3], ActivitySamples[1], ActivitySamples[2]>>)
    /\ Len(conversations) = 2
    /\ conversations[1].id = Str(lit.gemini_activity_prefix \o <<"1">>)
    /\ conversations[2].id = Str(lit.gemini_activity_prefix \o <<"2">>)
    /\ Len(conversations[1].messages) = 1
    /\ Len(conversations[2].messages) = 2

(* ------------------------------------------------------------------ *)
(* Properties of parseArrayFormat and parseMessage (Spec)               *)
(* ------------------------------------------------------------------ *)

\* the fields of a source record that may hold its messages, in order
ContainerFields == <<lit.messages, lit.mapping, lit.content, lit.history>>

\* the first of them whose value is an array, or undefined
FirstArrayField(conv) ==
    LET hits == {i \in 1..Len(ContainerFields) : Get(conv, ContainerFields[i]).t = "arr"}
    IN  IF hits = {} THEN Undefined
        ELSE Get(conv, ContainerFields[CHOOSE i \in hits : \A j \in hits : i <= j])

\* the file's value is an array of records that all have a title (so that
\* each of them gives a conversation)
TitledRecords ==
    /\ jsonData.t = "arr"
    /\ \A i \in 1..Len(jsonData.a) :
          Truthy(jsonData.a[i]) /\ Truthy(Get(jsonData.a[i], lit.title))

\* C11 as stated: after parseArrayFormat on an array of titled records, the
\* messages of each conversation are those of the first of messages, mapping,
\* content, history of its record that is an array, whatever the fields
\* before it hold.
C11_FirstArrayWins ==
    (Parsed /\ finished.shape \in {"b", "c"} /\ TitledRecords) =>
        /\ Len(conversations) = Len(jsonData.a)
        /\ \A i \in 1..Len(jsonData.a) :
              \A container \in {FirstArrayField(jsonData.a[i])} :
                  (container.t = "arr" /\ ~ParseMessages(container.a, <<>>).thrown) =>
                      conversations[i].messages = ParseMessages(container.a, <<>>).v

\* the text a parts array gives, and the text of a string
TextOfParts(parts) ==
    IF parts.t = "arr" /\ ~PartsText(parts).thrown THEN PartsText(parts).v.s ELSE <<>>
TextOfValue(v) == IF v.t = "str" THEN v.s ELSE <<>>

\* the texts of the six sources of a raw message, in the order of precedence
SourceTexts(msg) ==
    << TextOfValue(Get(msg, lit.content)),
       TextOfParts(Get(Get(msg, lit.content), lit.parts)),
       TextOfValue(Get(Get(msg, lit.content), lit.text)),
       TextOfParts(Get(msg, lit.parts)),
       TextOfValue(Get(msg, lit.text)),
       IF Get(msg, lit.message).t = "str" THEN Get(msg, lit.message).s
       ELSE IF Truthy(Get(msg, lit.message)) THEN Stringify(Get(msg, lit.message))
       ELSE <<>> >>

\* some source of the raw message has a text that is not empty after trimming
HasText(msg) ==
    Truthy(msg) /\ \E i \in 1..6 : Len(Trim(SourceTexts(msg)[i])) > 0

\* C12 as stated: of the raw messages of a single conversation, parseMessage
\* turns into a message every one that has a non-empty text in some source of
\* the list (string content, content.parts, content.text, parts, text,
\* message), and rejects only those that have none.
C12_FirstPresentSource ==
    (Parsed /\ finished.shape = "f") =>
        \A raw \in {Or(Get(jsonData, lit.messages), Or(Get(jsonData, lit.content),
                       Or(Get(jsonData, lit.history), Arr(<<>>))))} :
            raw.t = "arr" =>
                (IF Len(conversations) = 0 THEN 0 ELSE Len(conversations[1].messages))
                    = Cardinality({i \in 1..Len(raw.a) : HasText(raw.a[i])})

(* ------------------------------------------------------------------ *)
(* Properties of the export (SpecExport)                                *)
(* ------------------------------------------------------------------ *)

\* the date a conversation is grouped by: createTime, else updateTime, else
\* the current date
DateOfGroup(conv, now) ==
    IF conv.createTime # Null THEN conv.createTime
    ELSE IF conv.updateTime # Null THEN conv.updateTime
    ELSE now

\* YYYY-MM, or YYYY, of a valid date in the local time
PeriodText(byMonth, date) ==
    CHOOSE key \in {IF byMonth
                    THEN NatToString(f.year) \o <<"-">> \o
                         (IF f.month < 10 THEN <<"0">> ELSE <<>>) \o NatToString(f.month)
                    ELSE NatToString(f.year) : f \in {DateFields(date, utcOffset)}} : TRUE

\* the groups are a partition of the list under the keys of the dates, each
\* in list order, and stand in ascending order of their keys
SortedPartition(byMonth, groups, now) ==
    /\ \A g \in 1..Len(groups) :
          groups[g].convs =
              SelectSeq(conversations,
                        LAMBDA conv : PeriodText(byMonth, DateOfGroup(conv, now)) = groups[g].key)
    /\ \A g \in 1..Len(groups) : Len(groups[g].convs) > 0
    /\ \A i \in 1..Len(conversations) :
          \E g \in 1..Len(groups) :
              groups[g].key = PeriodText(byMonth, DateOfGroup(conversations[i], now))
    /\ \A g, h \in 1..Len(groups) : g < h => TextLess(groups[g].key, groups[h].key)

\* C13: for a conversation list whose times are dates, groupByMonth and
\* groupByYear give a partition of the list: every group holds, in list order,
\* the conversations whose createTime, else updateTime, else the current date
\* falls into its YYYY-MM (zero-padded) or YYYY, every conversation is in the
\* group of its key, and the groups stand in ascending order of their keys.
C13_GroupsPartition ==
    (\A i \in 1..Len(conversations) :
         \A now \in Clock : DateOfGroup(conversations[i], now).valid) =>
        \A now \in Clock :
            /\ SortedPartition(TRUE, groupByMonth(conversations, now, utcOffset), now)
            /\ SortedPartition(FALSE, groupByYear(conversations, now, utcOffset), now)

\* C13 witness: a per-month export in UTC of four conversations, in list order
\* of January 2024, November 2023, January 2024 and undated: three files, in
\* the order 2023-11, 2024-01 (two conversations), 2025-11 (the current month).
C13_TwoShareJanuary ==
    /\ utcOffset = 0 /\ Len(conversations) = 4 /\ converting # <<>>
    /\ \A files \in {converting[1].files} :
          /\ Len(files) = 3
          /\ files[1].filename = lit.ai_chat \o <<"_", "2", "0", "2", "3", "-", "1", "1">> \o lit.dot_md
          /\ files[2].filename = lit.ai_chat \o <<"_", "2", "0", "2", "4", "-", "0", "1">> \o lit.dot_md
          /\ files[3].filename = lit.ai_chat \o <<"_", "2", "0", "2", "5", "-", "1", "1">> \o lit.dot_md
          /\ files[2].content.count = 2
          /\ files[2].content.sections[1].id = conversations[1].id
          /\ files[2].content.sections[2].id = conversations[3].id

\* two decimal digits
TwoDigits(n) == <<DigitChars[(n \div 10) + 1], DigitChars[(n % 10) + 1]>>

\* {prefix}_{YYYYMMDD}_{HHMM}_{index:03} for a known createTime, else
\* {prefix}_conversation_{index:03}, index counting the export list from 1
FallbackName(conv, index) ==
    FilePrefix(detectedSource) \o
    (IF conv.createTime = Null THEN lit.conversation_infix
     ELSE CHOOSE name \in {<<"_">> \o NatToString(f.year) \o TwoDigits(f.month)
                               \o TwoDigits(f.date) \o <<"_">> \o TwoDigits(f.hours)
                               \o TwoDigits(f.minutes) \o <<"_">> :
                           f \in {DateFields(conv.createTime, utcOffset)}} : TRUE)
    \o <<"0", "0", DigitChars[index + 1]>>

\* the title is one that parseArrayFormat or parseGeminiActivityFormat makes up
\* for a record without a title
SynthesizedTitle(title) == \E n \in 1..9 : title = PlaceholderTitle(n)

\* C14 as stated: in the files of a per-chat export, a conversation whose
\* title is the placeholder parsing gave it (its createTime unknown or a date)
\* is named {prefix}_{YYYYMMDD}_{HHMM}_{index:03} or
\* {prefix}_conversation_{index:03}, wherever its record stood in the source.
C14_PlaceholderNeverNames ==
    \A i \in 1..Len(conversations) :
        (/\ SynthesizedTitle(conversations[i].title)
         /\ (conversations[i].createTime = Null \/ conversations[i].createTime.valid)) =>
            generateFilename(conversations[i], i - 1, FilePrefix(detectedSource), utcOffset)
                = Return(FallbackName(conversations[i], i))

\* C16 as stated: whenever the convert button is enabled, the conversation
\* list is not empty and is what the last call of parseConversations that
\* returned gave, whatever files were processed, with or without success,
\* and whatever was reset or converted since.
C16_ButtonOverResult ==
    ~convertBtnDisabled => (Len(conversations) > 0 /\ conversations = lastParsed)

\* C17 as stated: the files of a call of generateMarkdownFiles have names
\* that differ from one another.
C17_NamesDistinct ==
    \A k \in 1..Len(converting) :
        NoRepeat([i \in 1..Len(converting[k].files) |-> converting[k].files[i].filename])

\* the times the conversation list holds
HeldTimes ==
    UNION {{conversations[i].createTime, conversations[i].updateTime} \cup
           {conversations[i].messages[j].timestamp : j \in 1..Len(conversations[i].messages)} :
              i \in 1..Len(conversations)}

\* C18 as stated: every time held in the conversation list is null or a valid
\* date, and no call of convert() ends in an error raised by the rendering.
C18_TimesAreDates ==
    /\ \A time \in HeldTimes : time = Null \/ (time.t = "date" /\ time.valid)
    /\ exported.outcome # "threw"
====
